---- MODULE Spec2Model ----
(***************************************************************************)
(* Model of the Telegram cover bot (venom010101/bot).                      *)
(*                                                                         *)
(* Part 1: the group voting coordinator, handlers/group_support.py.        *)
(* Python dicts are modelled as functions whose DOMAIN is the set of keys  *)
(* present, so "key in d" is  k \in DOMAIN d  and a missing key raises.    *)
(* A poll is a dict object shared by reference: the handlers keep a local  *)
(* reference `poll` across awaits while group_sessions[g]['current_poll'] *)
(* may be rebound.  polls is the heap of poll objects, indexed by the      *)
(* message id of the poll message; a reference is such an index.  A poll   *)
(* dict that nothing refers to any more is freed (Collected).              *)
(*                                                                         *)
(* Every handler is a coroutine.  A coroutine runs without interruption    *)
(* from one await to the next; each action below is one such segment.      *)
(*   Spec      the program as bot.py builds it: Application.builder()      *)
(*             .token(..).build() processes one update at a time, so a     *)
(*             handler starts only when no other handler is in flight.     *)
(*   ConcSpec  handlers of different updates interleave at their awaits    *)
(*             (concurrent update processing).  A handler that has only    *)
(*             awaits left, with no code between or after them that reads  *)
(*             or writes the handler's state, is not kept as a frame       *)
(*             there: whenever those awaits return, nothing changes.       *)
(*             ConcSpec runs the handlers that write a poll (/groupsearch, *)
(*             /vote, the vote and finalize buttons); /results and the     *)
(*             select button write no poll and are left to Spec.           *)
(***************************************************************************)
EXTENDS Integers, Sequences, FiniteSets, TLC

\* ------------------------------------------------------------------ bounds
Users == {1, 2}
Groups == {"g1"}
Queries == {"q1", "q2"}
\* poll objects ever created
MaxPolls == 2
\* entries of a group's selection history
MaxHistory == 2
\* length of a vote list handed to _get_winning_vote in WinSpec
MaxVoters == 3
\* items in a response of the search provider
MaxItems == 1
\* the clock of SessionSpec stops here
MaxTime == 5403
\* add_recent_search calls per session in SessionSpec, and in RecentSpec
MaxSessionSearches == 1
MaxSearches == 12
\* parts of an artwork URL in UrlSpec
MaxUrlLen == 7

\* frames of handler coroutines in flight at once (ConcSpec)
Slots == {1, 2}
\* None, as the value of group_sessions[g]['current_poll'] and of a poll reference
None == 0
\* what a /vote command carries after the command word ("" : nothing)
VoteArgs == {"", "song", "artist", "album", "lyrics"}
\* the third part of a group_vote_TYPE callback
VoteTypes == {"song", "artist", "album", "lyrics"}
\* the INDEX of a group_select_INDEX callback
Indexes == -1..3

VARIABLES
    group_sessions, \* GroupSupportHandler.group_sessions: group id -> session dict
    polls,          \* heap of the poll dicts created so far
    tasks,          \* handler coroutines in flight, with their locals
    win_votes,      \* WinSpec: the votes dict handed to _get_winning_vote
    win_result,     \* WinSpec: what _get_winning_vote returned for win_votes
    rv_votes,       \* RevoteSpec: poll['votes'] of a poll in status 'voting'
    rv_prev,        \* RevoteSpec: poll['votes'] before the last recorded vote
    rv_call,        \* RevoteSpec: <<user_id, vote_type>> of the last recorded vote
    sessions,       \* SessionManager.sessions: user id -> session dict
    now,            \* time.time(), in seconds
    added,          \* user id -> the searches added to the user's stored session, oldest first
    sess_last,      \* the last SessionManager call: op, user_id, expired_users, ret
    img_input,      \* ImageSpec: the image behind the URL or path: decodable, width, height
    api_call,       \* the call made to the iTunes client: op and arguments
    api_ret,        \* what the call returned
    send_run,       \* the last _send_cover_image call: item, fetches, attempts, message
    search_run,     \* the last _perform_search call: arguments, requests, outcome
    audio_file,     \* AudioSpec: the audio file handed to process_audio_file
    audio_result,   \* AudioSpec: the dict process_audio_file returned
    db_time,        \* DbSpec: time.time(), in ticks of 1/TicksPerSecond second
    db_stats,       \* DbSpec: InteractionDatabase.stats
    db_files,       \* DbSpec: the record files on disk, path -> content
    users_data,     \* AdminSpec: the keys of AdminManager.users_data, in insertion order
    broadcast_in_progress,  \* AdminSpec: AdminManager.broadcast_in_progress
    broadcast_status,       \* AdminSpec: AdminManager.broadcast_status
    broadcasts,     \* AdminSpec: the frames of the broadcast_message calls
    admin_time,     \* AdminSpec: time.time()
    img_result      \* ImageSpec: the dict the validator returned, NoValidation before the call

groupVars == <<group_sessions, polls, tasks>>
winVars == <<win_votes, win_result>>
revoteVars == <<rv_votes, rv_prev, rv_call>>
\* the variables outside the group voting coordinator
sessionVars == <<sessions, now, added, sess_last>>
imageVars == <<img_input, img_result>>
apiVars == <<api_call, api_ret>>
searchVars == <<send_run, search_run>>
audioVars == <<audio_file, audio_result>>
dbVars == <<db_time, db_stats, db_files>>
adminVars == <<users_data, broadcast_in_progress, broadcast_status, broadcasts, admin_time>>
restVars == <<winVars, revoteVars, sessionVars, imageVars, apiVars, searchVars, audioVars, dbVars, adminVars>>
vars == <<groupVars, restVars>>

\* ------------------------------------------------------------ dict helpers
\* d[k] = v on a dict d
SetKey(d, k, v) == IF k \in DOMAIN d THEN [d EXCEPT ![k] = v] ELSE (k :> v) @@ d

\* list.remove(x): removes the first occurrence of x (x is in list)
ListRemove(list, x) ==
    LET i == CHOOSE j \in 1..Len(list) : list[j] = x /\ \A k \in 1..(j - 1) : list[k] # x
    IN  [j \in 1..(Len(list) - 1) |-> IF j < i THEN list[j] ELSE list[j + 1]]

\* x in list
InList(x, list) == \E j \in 1..Len(list) : list[j] = x

\* list[i] of a Python list: i counts from 0, a negative i from the end, and
\* an i outside -len..len-1 raises IndexError
PyIndexable(list, i) == -Len(list) <= i /\ i < Len(list)
PyGet(list, i) == IF i >= 0 THEN list[i + 1] ELSE list[Len(list) + i + 1]

\* list.count(x)
Count(list, x) == Cardinality({j \in 1..Len(list) : list[j] = x})

\* the key order of the votes dict of a poll, as created
Categories == <<"song", "artist", "album">>
CategorySet == {"song", "artist", "album"}

\* --------------------------------------------------------------- the polls
\* the dict stored as current_poll by _handle_group_search
NewPoll(query, message_id, user_id) ==
    [query |-> query,
     message_id |-> message_id,
     initiator_id |-> user_id,
     votes |-> [song |-> <<>>, artist |-> <<>>, album |-> <<>>],
     status |-> "voting"]

\* the dict stored for a group on its first /groupsearch
NewGroupSession == [current_poll |-> None, votes |-> <<>>, results |-> <<>>]

\* "group_id not in self.group_sessions or not ...['current_poll']"
NoActivePoll(g) == g \notin DOMAIN group_sessions \/ group_sessions[g].current_poll = None

\* the loop "for vote_category in poll['votes']: if user_id in ...: ....remove(user_id)"
RemoveVoter(votes, user_id) ==
    [c \in DOMAIN votes |->
        IF InList(user_id, votes[c]) THEN ListRemove(votes[c], user_id) ELSE votes[c]]

\* mutant of RecordVote: the removal loop is missing
RecordVoteNoRemoval(votes, user_id, vote_type) ==
    IF vote_type \in DOMAIN votes
    THEN [votes EXCEPT ![vote_type] = Append(@, user_id)]
    ELSE votes

\* mutant of RecordVote: the category's list is assigned, not appended to
RecordVoteAssigns(votes, user_id, vote_type) ==
    LET cleared == RemoveVoter(votes, user_id)
    IN  IF vote_type \in DOMAIN cleared
        THEN [cleared EXCEPT ![vote_type] = <<user_id>>]
        ELSE cleared

\* mutant of RecordVote: a vote for the category the user is already in
\* takes the vote back
RecordVoteToggles(votes, user_id, vote_type) ==
    LET cleared == RemoveVoter(votes, user_id)
    IN  IF vote_type \in DOMAIN cleared /\ ~InList(user_id, votes[vote_type])
        THEN [cleared EXCEPT ![vote_type] = Append(@, user_id)]
        ELSE cleared

\* the vote dict after "Record vote": the removal loop, then
\* poll['votes'][vote_type].append(user_id), which raises KeyError for a
\* vote_type that is no key (the removals stay done)
RecordVote(votes, user_id, vote_type) ==
    LET cleared == RemoveVoter(votes, user_id)
    IN  IF vote_type \in DOMAIN cleared
        THEN [cleared EXCEPT ![vote_type] = Append(@, user_id)]
        ELSE cleared

\* max(vote_counts, key=vote_counts.get): the first key, in dict order, whose
\* count no other key's count exceeds
MaxKey(vote_counts) ==
    LET i == CHOOSE j \in 1..Len(Categories) :
                /\ \A k \in 1..Len(Categories) :
                       vote_counts[Categories[k]] <= vote_counts[Categories[j]]
                /\ \A k \in 1..(j - 1) :
                       vote_counts[Categories[k]] < vote_counts[Categories[j]]
    IN  Categories[i]

\* mutant of GetWinningVote: any tie is given to 'song'
GetWinningVoteTieToSong(votes) ==
    LET vote_counts == [c \in CategorySet |-> Len(votes[c])]
        first == MaxKey(vote_counts)
        winning_count == vote_counts[first]
        tied == Cardinality({c \in CategorySet : vote_counts[c] = winning_count}) > 1
    IN  <<IF tied THEN "song" ELSE first, winning_count>>

\* _get_winning_vote(votes) -> (winning_type, winning_count)
GetWinningVote(votes) ==
    LET vote_counts == [c \in CategorySet |-> Len(votes[c])]
        first == MaxKey(vote_counts)
        winning_count == vote_counts[first]
        tied == Cardinality({c \in CategorySet : vote_counts[c] = winning_count}) > 1
        winning_type ==
            IF tied
            THEN IF vote_counts["song"] = winning_count THEN "song"
                 ELSE IF vote_counts["artist"] = winning_count THEN "artist"
                 ELSE "album"
            ELSE first
    IN  <<winning_type, winning_count>>

\* the three placeholder records _simulate_search_results builds
SimulatedResult(n, query) ==
    [title |-> <<"result", n, "for", query>>,
     artist |-> <<"artist", n>>,
     album |-> <<"album", n>>,
     cover_url |-> <<"https://example.com", "cover", n>>]

SimulatedResults(query) ==
    <<SimulatedResult("1", query), SimulatedResult("2", query), SimulatedResult("3", query)>>

\* ------------------------------------------- the cover search client (iTunes)
\* A string is the sequence of its parts, a URL one with the parts "/" between
\* its path segments; "100", "x", "100" is the size token of an artwork URL.
\* A provider item is a dict of the JSON response.
SongItem ==
    [wrapperType |-> "track", kind |-> "song", trackName |-> "Track", artistName |-> "Artist",
     collectionName |-> "Album", trackId |-> "t1", collectionId |-> "c1", artistId |-> "a1",
     artworkUrl100 |-> <<"https:", "/", "/", "is1-ssl.mzstatic.com", "/", "image", "/", "100", "x", "100", "bb.jpg">>]
SongItemNoArtwork == [wrapperType |-> "track", kind |-> "song", trackName |-> "Bare"]
VideoItem ==
    [wrapperType |-> "track", kind |-> "music-video", trackName |-> "Video",
     artworkUrl100 |-> <<"https:", "/", "/", "is1-ssl.mzstatic.com", "/", "video", "/", "100", "x", "100", "bb.jpg">>]
AlbumItem ==
    [wrapperType |-> "collection", collectionType |-> "Album", collectionName |-> "Album",
     artistName |-> "Artist", collectionId |-> "c1", artistId |-> "a1",
     artworkUrl100 |-> <<"https:", "/", "/", "is1-ssl.mzstatic.com", "/", "image", "/", "100", "x", "100", "bb.jpg">>]
ArtistItem == [wrapperType |-> "artist", artistType |-> "Artist", artistId |-> "a1"]
ProviderItems == {SongItem, SongItemNoArtwork, VideoItem, AlbumItem, ArtistItem}

\* the JSON responses of the provider to a request with the given limit, with
\* up to MaxItems items
Answers(limit) ==
    {[resultCount |-> Len(items), results |-> items] :
        items \in UNION {[1..n -> ProviderItems] :
                            n \in 0..(IF limit < MaxItems THEN limit ELSE MaxItems)}}
Responses == Answers(MaxItems)

\* item.get(key), with None for a missing key
GetOrNone(item, key) == IF key \in DOMAIN item THEN item[key] ELSE "None"

\* item.get(key, default)
GetOr(item, key, default) == IF key \in DOMAIN item THEN item[key] ELSE default

\* str.replace(old, new): every occurrence of old, found from the left and
\* not overlapping an occurrence already replaced, becomes new
RECURSIVE StrReplace(_, _, _)
StrReplace(str, old, new) ==
    IF Len(str) < Len(old) THEN str
    ELSE IF SubSeq(str, 1, Len(old)) = old
         THEN new \o StrReplace(SubSeq(str, Len(old) + 1, Len(str)), old, new)
         ELSE <<Head(str)>> \o StrReplace(Tail(str), old, new)

SizeToken == <<"100", "x", "100">>
HighQualityToken == <<"1600", "x", "1600">>

\* mutant of HighQualityUrl: the size is raised to 600x600
HighQualityUrl600(artwork_url) == StrReplace(artwork_url, SizeToken, <<"600", "x", "600">>)

\* artwork_url.replace("100x100", "1600x1600")
HighQualityUrl(artwork_url) == StrReplace(artwork_url, SizeToken, HighQualityToken)

\* the dict _parse_song_results appends for an item it keeps
ParsedSong(item) ==
    [title |-> GetOr(item, "trackName", "Unknown Title"),
     artist |-> GetOr(item, "artistName", "Unknown Artist"),
     album |-> GetOr(item, "collectionName", "Unknown Album"),
     cover_url |-> item.artworkUrl100,
     cover_url_hq |-> HighQualityUrl(item.artworkUrl100),
     preview_url |-> GetOrNone(item, "previewUrl"),
     track_id |-> GetOrNone(item, "trackId"),
     collection_id |-> GetOrNone(item, "collectionId"),
     artist_id |-> GetOrNone(item, "artistId"),
     release_date |-> GetOrNone(item, "releaseDate")]

\* the dict _parse_album_results appends for an item it keeps
ParsedAlbum(item) ==
    [title |-> GetOr(item, "collectionName", "Unknown Album"),
     artist |-> GetOr(item, "artistName", "Unknown Artist"),
     cover_url |-> item.artworkUrl100,
     cover_url_hq |-> HighQualityUrl(item.artworkUrl100),
     collection_id |-> GetOrNone(item, "collectionId"),
     artist_id |-> GetOrNone(item, "artistId"),
     track_count |-> GetOrNone(item, "trackCount"),
     release_date |-> GetOrNone(item, "releaseDate"),
     genre |-> GetOrNone(item, "primaryGenreName")]

\* whether _parse_song_results / _parse_album_results keeps the item
KeepsSong(item) ==
    /\ GetOrNone(item, "wrapperType") = "track" /\ GetOrNone(item, "kind") = "song"
    /\ "artworkUrl100" \in DOMAIN item /\ item.artworkUrl100 # <<>>
KeepsAlbum(item) ==
    /\ GetOrNone(item, "wrapperType") = "collection"
    /\ GetOrNone(item, "collectionType") = "Album"
    /\ "artworkUrl100" \in DOMAIN item /\ item.artworkUrl100 # <<>>

RECURSIVE ParseSongItems(_)
ParseSongItems(items) ==
    IF items = <<>> THEN <<>>
    ELSE (IF KeepsSong(Head(items)) THEN <<ParsedSong(Head(items))>> ELSE <<>>)
         \o ParseSongItems(Tail(items))

RECURSIVE ParseAlbumItems(_)
ParseAlbumItems(items) ==
    IF items = <<>> THEN <<>>
    ELSE (IF KeepsAlbum(Head(items)) THEN <<ParsedAlbum(Head(items))>> ELSE <<>>)
         \o ParseAlbumItems(Tail(items))

\* _parse_song_results(results), _parse_album_results(results)
ParseSongResults(response) == ParseSongItems(GetOr(response, "results", <<>>))
ParseAlbumResults(response) == ParseAlbumItems(GetOr(response, "results", <<>>))

\* What the provider answers: a response for each of the requests a search for
\* one query text makes (entity song, musicArtist, album, and the songs of the
\* artist id found).
Providers ==
    [song : Answers(10), musicArtist : Answers(1), album : Answers(10),
     artistSongs : Answers(20)]

\* search_song(query), search_artist(query), search_album(query) against the
\* provider answers `provider` for that query
SearchSong(provider) == ParseSongResults(provider["song"])
\* mutant of SearchArtist: the songs of the artist id are searched for even
\* when no artist was found
SearchArtistNoFallback(provider) == ParseSongResults(provider["artistSongs"])

\* artist_results["results"][0]["artistId"] raises when the first item of a
\* non-empty artist answer has no artistId
SearchArtistRaises(provider) ==
    /\ GetOr(provider["musicArtist"], "resultCount", 0) # 0
    /\ \/ GetOr(provider["musicArtist"], "results", <<>>) = <<>>
       \/ "artistId" \notin DOMAIN provider["musicArtist"].results[1]
SearchArtist(provider) ==
    IF GetOr(provider["musicArtist"], "resultCount", 0) = 0
    THEN ParseSongResults(provider["song"])
    ELSE ParseSongResults(provider["artistSongs"])
SearchAlbum(provider) == ParseAlbumResults(provider["album"])

\* None as the return value of get_cover_url
NoUrl == <<"None">>

\* mutant of GetCoverUrl: the high-quality URL is returned whenever present
GetCoverUrlIgnoresFlag(item, high_quality) ==
    IF "cover_url_hq" \in DOMAIN item THEN item.cover_url_hq
    ELSE IF "cover_url" \in DOMAIN item THEN item.cover_url
    ELSE NoUrl

\* get_cover_url(item, high_quality)
GetCoverUrl(item, high_quality) ==
    IF high_quality /\ "cover_url_hq" \in DOMAIN item THEN item.cover_url_hq
    ELSE IF "cover_url" \in DOMAIN item THEN item.cover_url
    ELSE NoUrl

\* the search of the cover search client for a search type: whether it raises,
\* and the list it returns when it does not
CoverSearchRaises(provider, search_type) ==
    search_type = "artist" /\ SearchArtistRaises(provider)
CoverSearch(provider, search_type) ==
    CASE search_type = "song" -> SearchSong(provider)
      [] search_type = "artist" -> SearchArtist(provider)
      [] search_type = "album" -> SearchAlbum(provider)

\* --------------------------------------------------------- the coroutines
\* A task is the frame of one handler call: kind (the handler), pc (the await it
\* is suspended at), reply (the text it last handed to reply_text / answer) and
\* the locals it reads after an await.
Idle == [kind |-> "idle", pc |-> "idle"]

IsIdle(s) == tasks[s].pc = "idle"

\* Whether a new update's handler may start: any time under concurrent update
\* processing, only when no handler is in flight otherwise.
Startable(conc) ==
    IF conc THEN \E s \in Slots : IsIdle(s) ELSE \A s \in Slots : IsIdle(s)

FreeSlot == CHOOSE s \in Slots : IsIdle(s) /\ \A t \in Slots : IsIdle(t) => s <= t

\* the awaits after which a handler touches no state any more
TrailingPcs == {"final", "update_poll_message"}

Spawn(conc, task) ==
    IF conc /\ task.pc \in TrailingPcs
    THEN UNCHANGED tasks
    ELSE tasks' = [tasks EXCEPT ![FreeSlot] = task]

Finish(s) == tasks' = [tasks EXCEPT ![s] = Idle]

\* a handler suspended at its last await, having sent `reply`
Final(kind, u, g, arg, reply) ==
    [kind |-> kind, pc |-> "final", user_id |-> u, chat_id |-> g, arg |-> arg,
     reply |-> reply]

\* a poll dict no reference leads to any more
Collected == [status |-> "collected"]

\* the poll references held by the group sessions gs and the frames ts
Refs(gs, ts) ==
    {gs[g].current_poll : g \in DOMAIN gs}
    \cup {ts[s].poll : s \in {t \in Slots : "poll" \in DOMAIN ts[t]}}

\* the heap ps once the dicts unreachable from gs and ts are freed
Collect(ps, gs, ts) ==
    [i \in 1..Len(ps) |-> IF i \in Refs(gs, ts) THEN ps[i] ELSE Collected]

\* the poll dicts that exist
LivePolls == {i \in 1..Len(polls) : polls[i] # Collected}

InFlight(kind, pc) == {s \in Slots : tasks[s].kind = kind /\ tasks[s].pc = pc}

\* the coordinator after construction: no group session, no handler running
GroupInit ==
    /\ group_sessions = [g \in {} |-> NewGroupSession]
    /\ polls = <<>>
    /\ tasks = [s \in Slots |-> Idle]

\* the variables of the function specifications, where they are not used
WinIdle ==
    /\ win_votes = [song |-> <<>>, artist |-> <<>>, album |-> <<>>]
    /\ win_result = <<"", 0>>
RevoteIdle ==
    /\ rv_votes = [song |-> <<>>, artist |-> <<>>, album |-> <<>>]
    /\ rv_prev = rv_votes
    /\ rv_call = <<>>

\* SessionManager after construction
SessionInit ==
    /\ sessions = [u \in {} |-> 0]
    /\ now = 0
    /\ added = [u \in Users |-> <<>>]
    /\ sess_last = [op |-> "__init__"]

\* no call to the iTunes client
NotReturned == [returned |-> FALSE]
ApiIdle ==
    /\ api_call = [op |-> "__init__"]
    /\ api_ret = NotReturned

\* the search handler before any update
NotCalled == [called |-> FALSE]
SearchIdle ==
    /\ send_run = NotCalled
    /\ search_run = NotCalled

\* the interaction database after __init__ on an empty data directory
EmptyDict == [k \in {} |-> 0]
DbIdle ==
    /\ db_time = 0
    /\ db_stats = [total_interactions |-> 0, users |-> EmptyDict, groups |-> EmptyDict,
                   commands |-> EmptyDict, searches |-> EmptyDict, last_updated |-> 0]
    /\ db_files = EmptyDict

\* the admin manager after __init__ (None as a time is 0: the clock starts
\* at 1), no broadcast_message call in flight
NoBroadcast == [pc |-> "idle"]
AdminIdle ==
    /\ users_data = <<>>
    /\ broadcast_in_progress = FALSE
    /\ broadcast_status = [total |-> 0, sent |-> 0, failed |-> 0, start_time |-> None,
                           end_time |-> None, message |-> "None"]
    /\ broadcasts = [s \in Slots |-> NoBroadcast]
    /\ admin_time = 1

\* no audio file processed
NoCover == [present |-> FALSE]
NotProcessed == [processed |-> FALSE]
AudioIdle ==
    /\ audio_file = [ext |-> ".mp3", tags |-> {}, cover |-> NoCover, raises_at |-> "never"]
    /\ audio_result = NotProcessed

\* no validation result yet
NoValidation == [quality |-> "not validated"]
ImageIdle ==
    /\ img_input = [decodable |-> FALSE, width |-> 0, height |-> 0]
    /\ img_result = NoValidation

Init == GroupInit /\ WinIdle /\ RevoteIdle /\ SessionInit /\ ImageIdle /\ ApiIdle /\ SearchIdle /\ AudioIdle /\ DbIdle /\ AdminIdle

\* ------------------------------------------------------------ /groupsearch
\* _handle_group_search up to its await of reply_text.  query = "" stands for a
\* command without argument.
GroupSearch(conc, u, g, query) ==
    /\ Startable(conc)
    /\ IF query = ""
       THEN /\ Spawn(conc, Final("groupsearch", u, g, "", "usage"))
            /\ UNCHANGED group_sessions
       ELSE /\ Len(polls) + Cardinality(InFlight("groupsearch", "reply_poll")) < MaxPolls
            /\ group_sessions' =
                   IF g \notin DOMAIN group_sessions
                   THEN SetKey(group_sessions, g, NewGroupSession)
                   ELSE group_sessions
            /\ Spawn(conc, [kind |-> "groupsearch", pc |-> "reply_poll", user_id |-> u,
                      chat_id |-> g, reply |-> "poll", query |-> query])
    /\ UNCHANGED <<polls, restVars>>

\* mutant of StoredPoll: the new poll takes over the vote lists of the poll
\* created before it
StoredPollKeepsVotes(query, message_id, user_id) ==
    IF message_id > 1 /\ polls[message_id - 1] # Collected
    THEN [NewPoll(query, message_id, user_id) EXCEPT !.votes = polls[message_id - 1].votes]
    ELSE NewPoll(query, message_id, user_id)

\* the poll dict _handle_group_search stores once reply_text has returned the
\* poll message
StoredPoll(query, message_id, user_id) == NewPoll(query, message_id, user_id)

\* _handle_group_search after reply_text returned poll_message: "Store poll
\* information"
GroupSearchStore(s) ==
    /\ tasks[s].kind = "groupsearch" /\ tasks[s].pc = "reply_poll"
    /\ LET message_id == Len(polls) + 1
       IN  /\ group_sessions' =
                  [group_sessions EXCEPT ![tasks[s].chat_id].current_poll = message_id]
           /\ Finish(s)
           /\ polls' = Collect(Append(polls, StoredPoll(tasks[s].query, message_id,
                                                        tasks[s].user_id)),
                               group_sessions', tasks')
    /\ UNCHANGED restVars

\* ------------------------------------------------------------------ /vote
\* mutant of VoteVerdict: the status check is missing
VoteVerdictNoStatus(g, arg) ==
    IF NoActivePoll(g) THEN "no_active_poll"
    ELSE IF arg = "" THEN "usage"
    ELSE IF arg \notin {"song", "artist", "album"} THEN "invalid_option"
    ELSE "ok"

\* the checks of _handle_vote before "Record vote": the reply of the first
\* check that fails, "ok" when none does
VoteVerdict(g, arg) ==
    IF NoActivePoll(g) THEN "no_active_poll"
    ELSE IF polls[group_sessions[g].current_poll].status # "voting" THEN "voting_closed"
    ELSE IF arg = "" THEN "usage"
    ELSE IF arg \notin {"song", "artist", "album"} THEN "invalid_option"
    ELSE "ok"

\* _handle_vote up to its first await
Vote(conc, u, g, arg) ==
    /\ Startable(conc)
    /\ LET verdict == VoteVerdict(g, arg)
       IN  IF verdict # "ok"
           THEN /\ Spawn(conc, Final("vote", u, g, arg, verdict))
                /\ UNCHANGED polls
           ELSE LET p == group_sessions[g].current_poll
                IN  /\ polls' = [polls EXCEPT ![p].votes = RecordVote(@, u, arg)]
                    /\ Spawn(conc, [kind |-> "vote", pc |-> "update_poll_message",
                                    user_id |-> u, chat_id |-> g, arg |-> arg,
                                    reply |-> ""])
    /\ UNCHANGED <<group_sessions, restVars>>

\* _update_poll_message returned: _handle_vote awaits message.delete(),
\* _handle_vote_callback awaits query.answer
PollMessageUpdated(s) ==
    /\ tasks[s].kind \in {"vote", "vote_callback"} /\ tasks[s].pc = "update_poll_message"
    /\ tasks' = [tasks EXCEPT ![s].pc = "final",
                              ![s].reply = IF tasks[s].kind = "vote" THEN "" ELSE "voted"]
    /\ UNCHANGED <<group_sessions, polls, restVars>>

\* --------------------------------------------------------------- /results
\* _handle_results: the reply holds the last entry of the group's results log
Results(conc, u, g) ==
    /\ Startable(conc)
    /\ IF g \notin DOMAIN group_sessions \/ group_sessions[g].results = <<>>
       THEN Spawn(conc, Final("results", u, g, "", "no_results"))
       ELSE Spawn(conc, [kind |-> "results", pc |-> "final", user_id |-> u, chat_id |-> g,
                         arg |-> "", reply |-> "last_results",
                         results |-> group_sessions[g].results[Len(group_sessions[g].results)]])
    /\ UNCHANGED <<group_sessions, polls, restVars>>

\* --------------------------------------------------- group_vote_TYPE button
\* the checks of _handle_vote_callback before "Record vote"
VoteCallbackVerdict(g) ==
    IF NoActivePoll(g) THEN "no_active_poll"
    ELSE IF polls[group_sessions[g].current_poll].status # "voting" THEN "voting_closed"
    ELSE "ok"

\* _handle_vote_callback up to its first await; a vote_type that is no key of
\* poll['votes'] raises KeyError after the removal loop, and the handler ends
VoteCallback(conc, u, g, vote_type) ==
    /\ Startable(conc)
    /\ LET verdict == VoteCallbackVerdict(g)
       IN  IF verdict # "ok"
           THEN /\ Spawn(conc, Final("vote_callback", u, g, vote_type, verdict))
                /\ UNCHANGED polls
           ELSE LET p == group_sessions[g].current_poll
                IN  /\ polls' = [polls EXCEPT ![p].votes = RecordVote(@, u, vote_type)]
                    /\ IF vote_type \in DOMAIN polls[p].votes
                       THEN Spawn(conc, [kind |-> "vote_callback",
                                         pc |-> "update_poll_message", user_id |-> u,
                                         chat_id |-> g, arg |-> vote_type, reply |-> ""])
                       ELSE UNCHANGED tasks
    /\ UNCHANGED <<group_sessions, restVars>>

\* ----------------------------------------------------- group_finalize button
\* mutant of FinalizeVerdict: the initiator check is missing
FinalizeVerdictAnyUser(g, u) ==
    IF NoActivePoll(g) THEN "no_active_poll"
    ELSE IF polls[group_sessions[g].current_poll].status # "voting" THEN "already_closed"
    ELSE "ok"

\* mutant of FinalizeVerdict: the status check is missing
FinalizeVerdictNoStatus(g, u) ==
    IF NoActivePoll(g) THEN "no_active_poll"
    ELSE IF polls[group_sessions[g].current_poll].initiator_id # u THEN "not_initiator"
    ELSE "ok"

\* the checks of _handle_finalize_callback before it closes the vote
FinalizeVerdict(g, u) ==
    IF NoActivePoll(g) THEN "no_active_poll"
    ELSE IF polls[group_sessions[g].current_poll].initiator_id # u THEN "not_initiator"
    ELSE IF polls[group_sessions[g].current_poll].status # "voting" THEN "already_closed"
    ELSE "ok"

\* mutant of ClosedPoll: the vote is closed as 'completed'
ClosedPollSkipsSearching(poll) ==
    SetKey(SetKey(poll, "status", "completed"), "search_type", GetWinningVote(poll.votes)[1])

\* the poll dict after "Update poll status" of _handle_finalize_callback
ClosedPoll(poll) ==
    SetKey(SetKey(poll, "status", "searching"), "search_type", GetWinningVote(poll.votes)[1])

\* _handle_finalize_callback up to its await of edit_message_text.  Between
\* that await and the next, of query.answer, the handler reads and writes
\* nothing: the frame is suspended at "closing" until both have returned.
FinalizeCallback(conc, u, g) ==
    /\ Startable(conc)
    /\ LET verdict == FinalizeVerdict(g, u)
       IN  IF verdict # "ok"
           THEN /\ Spawn(conc, Final("finalize", u, g, "", verdict))
                /\ UNCHANGED polls
           ELSE LET p == group_sessions[g].current_poll
                IN  /\ polls' = [polls EXCEPT ![p] = ClosedPoll(@)]
                    /\ Spawn(conc, [kind |-> "finalize", pc |-> "closing", user_id |-> u,
                              chat_id |-> g, reply |-> "", poll |-> p])
    /\ UNCHANGED <<group_sessions, restVars>>

\* the poll dict after "Update poll with results" of _simulate_search_results
CompletedPoll(poll) ==
    SetKey(SetKey(poll, "status", "completed"), "results", SimulatedResults(poll.query))

\* The 'timestamp' value of the results-log entry is
\*   context.bot.get_updates()[-1].message.date.timestamp() if context.bot.get_updates() else 0
\* Bot.get_updates is a coroutine function (as every Bot method this file
\* awaits), and it is called here without await: the call yields a coroutine
\* object, which is true as a condition and cannot be subscripted, so the
\* expression raises TypeError each time it is evaluated.
TimestampRaises == TRUE

\* whether building the results-log entry raises: KeyError for a poll dict
\* without 'search_type', else the timestamp's TypeError
LogEntryRaises(poll) == "search_type" \notin DOMAIN poll \/ TimestampRaises

\* the results-log entry of _simulate_search_results
LogEntry(poll) ==
    [query |-> poll.query, search_type |-> poll.search_type,
     count |-> Len(SimulatedResults(poll.query)), timestamp |-> 0]

\* edit_message_text and query.answer returned: _handle_finalize_callback calls
\* _simulate_search_results(context, chat_id), which takes the group's current
\* poll, completes it, and then builds the results-log entry; when that raises
\* the handler ends there, otherwise it awaits the edit that shows the results.
FinalizeAnswered(s) ==
    /\ tasks[s].kind = "finalize" /\ tasks[s].pc = "closing"
    /\ LET g == tasks[s].chat_id
           p == group_sessions[g].current_poll
       IN  /\ IF LogEntryRaises(CompletedPoll(polls[p]))
              THEN /\ Finish(s)
                   /\ UNCHANGED group_sessions
              ELSE /\ group_sessions' =
                          [group_sessions EXCEPT ![g].results =
                               Append(@, LogEntry(CompletedPoll(polls[p])))]
                   /\ tasks' = [tasks EXCEPT ![s] =
                                    Final("finalize", tasks[s].user_id, g, "", "results")]
           /\ polls' = Collect([polls EXCEPT ![p] = CompletedPoll(@)],
                               group_sessions', tasks')
    /\ UNCHANGED restVars

\* ------------------------------------------------- group_select_INDEX button
\* mutant of SelectVerdict: a negative index passes
SelectVerdictNoLowerBound(g, index) ==
    IF NoActivePoll(g) THEN "no_active_search"
    ELSE IF \/ polls[group_sessions[g].current_poll].status # "completed"
            \/ "results" \notin DOMAIN polls[group_sessions[g].current_poll]
         THEN "no_results_yet"
    ELSE IF index >= Len(polls[group_sessions[g].current_poll].results)
         THEN "invalid_choice"
    ELSE "ok"

\* the checks of _handle_select_callback before it takes the selected result
SelectVerdict(g, index) ==
    IF NoActivePoll(g) THEN "no_active_search"
    ELSE IF \/ polls[group_sessions[g].current_poll].status # "completed"
            \/ "results" \notin DOMAIN polls[group_sessions[g].current_poll]
         THEN "no_results_yet"
    ELSE IF index < 0 \/ index >= Len(polls[group_sessions[g].current_poll].results)
         THEN "invalid_choice"
    ELSE "ok"

\* selection-history entries a group has or is about to get
HistoryLoad(g) ==
    (IF "history" \in DOMAIN group_sessions[g] THEN Len(group_sessions[g].history) ELSE 0)
    + Cardinality({s \in Slots : tasks[s].kind = "select" /\ tasks[s].pc # "final"
                                 /\ tasks[s].chat_id = g})

\* _handle_select_callback up to its first await (the handler does not read
\* which user pressed the button).  Between the await of query.answer and that of
\* send_message the handler reads and writes nothing: the frame is suspended
\* at "sending" until both have returned.
SelectCallback(conc, g, index) ==
    /\ Startable(conc)
    /\ LET verdict == SelectVerdict(g, index)
       IN  IF verdict # "ok"
           THEN Spawn(conc, Final("select", None, g, index, verdict))
           ELSE LET p == group_sessions[g].current_poll
                IN  /\ HistoryLoad(g) < MaxHistory
                    /\ IF "results" \in DOMAIN polls[p] /\ PyIndexable(polls[p].results, index)
                       THEN Spawn(conc, [kind |-> "select", pc |-> "sending",
                                         chat_id |-> g, arg |-> index, reply |-> "loading",
                                         poll |-> p,
                                         selected_result |-> PyGet(polls[p].results, index)])
                       ELSE UNCHANGED tasks
    /\ UNCHANGED <<group_sessions, polls, restVars>>

\* mutant of StoreSelection: the history is assigned the new entry alone
StoreSelectionOverwrites(session, poll, selected_result) ==
    SetKey(session, "history",
           <<[query |-> poll.query, search_type |-> poll.search_type,
              selected |-> selected_result]>>)

\* the group session after "Store the result in the group's history": the
\* 'history' list is created if missing, then the entry is built, which raises
\* KeyError for a poll dict without 'search_type', and appended
StoreSelection(session, poll, selected_result) ==
    LET with_history ==
            IF "history" \notin DOMAIN session THEN SetKey(session, "history", <<>>)
            ELSE session
    IN  IF "search_type" \in DOMAIN poll
        THEN [with_history EXCEPT !.history =
                  Append(@, [query |-> poll.query, search_type |-> poll.search_type,
                             selected |-> selected_result])]
        ELSE with_history

\* query.answer and send_message returned: _handle_select_callback stores the selection and ends
SelectSent(s) ==
    /\ tasks[s].kind = "select" /\ tasks[s].pc = "sending"
    /\ group_sessions' =
           [group_sessions EXCEPT ![tasks[s].chat_id] =
                StoreSelection(@, polls[tasks[s].poll], tasks[s].selected_result)]
    /\ Finish(s)
    /\ polls' = Collect(polls, group_sessions', tasks')
    /\ UNCHANGED restVars

\* ------------------------------------------------------- ends of a handler
\* the last await of a handler returned
Return(s) ==
    /\ tasks[s].pc = "final"
    /\ Finish(s)
    /\ UNCHANGED <<group_sessions, polls, restVars>>

\* the Telegram call a handler awaits raises (network error, BadRequest, ...):
\* no handler of this file catches it, the handler ends
AwaitRaises(s) ==
    /\ ~IsIdle(s)
    /\ Finish(s)
    /\ UNCHANGED group_sessions
    /\ polls' = Collect(polls, group_sessions', tasks')
    /\ UNCHANGED restVars

\* -------------------------------------------------------- specifications
\* the handlers that write a poll
PollHandlers(conc) ==
    \/ \E u \in Users, g \in Groups, query \in Queries \cup {""} : GroupSearch(conc, u, g, query)
    \/ \E u \in Users, g \in Groups, arg \in VoteArgs : Vote(conc, u, g, arg)
    \/ \E u \in Users, g \in Groups, vote_type \in VoteTypes : VoteCallback(conc, u, g, vote_type)
    \/ \E u \in Users, g \in Groups : FinalizeCallback(conc, u, g)

\* the handlers that only read polls
ReadingHandlers(conc) ==
    \/ \E u \in Users, g \in Groups : Results(conc, u, g)
    \/ \E g \in Groups, index \in Indexes : SelectCallback(conc, g, index)

Steps ==
    \/ \E s \in Slots : GroupSearchStore(s)
    \/ \E s \in Slots : PollMessageUpdated(s)
    \/ \E s \in Slots : FinalizeAnswered(s)
    \/ \E s \in Slots : SelectSent(s)
    \/ \E s \in Slots : Return(s)
    \/ \E s \in Slots : AwaitRaises(s)

\* one update at a time (bot.py: Application.builder().token(..).build())
Next == PollHandlers(FALSE) \/ ReadingHandlers(FALSE) \/ Steps
Spec == Init /\ [][Next]_vars

\* handlers interleave at their awaits
ConcSteps ==
    \/ \E s \in Slots : GroupSearchStore(s)
    \/ \E s \in Slots : FinalizeAnswered(s)
    \/ \E s \in Slots : AwaitRaises(s)

ConcNext == PollHandlers(TRUE) \/ ConcSteps
ConcSpec == Init /\ [][ConcNext]_vars

\* The life of a poll, one update at a time, with the event loop resuming
\* every suspended handler: the call it awaits returns or raises.
Resumed ==
    \/ \E s \in Slots : GroupSearchStore(s)
    \/ \E s \in Slots : FinalizeAnswered(s)
    \/ \E s \in Slots : Return(s)
    \/ \E s \in Slots : AwaitRaises(s)

FairNext ==
    \/ \E u \in Users, g \in Groups, query \in Queries \cup {""} : GroupSearch(FALSE, u, g, query)
    \/ \E u \in Users, g \in Groups, arg \in VoteArgs : Vote(FALSE, u, g, arg)
    \/ \E s \in Slots : PollMessageUpdated(s)
    \/ \E u \in Users, g \in Groups : FinalizeCallback(FALSE, u, g)
    \/ Resumed
FairSpec == Init /\ [][FairNext]_vars /\ WF_vars(Resumed \/ \E s \in Slots : PollMessageUpdated(s))

\* _get_winning_vote as a function of its argument
VoteLists == UNION {[1..n -> Users] : n \in 0..MaxVoters}

WinInit ==
    /\ GroupInit /\ RevoteIdle /\ SessionInit /\ ImageIdle /\ ApiIdle /\ SearchIdle /\ AudioIdle /\ DbIdle /\ AdminIdle
    /\ win_votes \in [CategorySet -> VoteLists]
    /\ win_result = <<"", 0>>

WinCall ==
    /\ win_result = <<"", 0>>
    /\ win_result' = GetWinningVote(win_votes)
    /\ UNCHANGED <<groupVars, win_votes, revoteVars, sessionVars, imageVars, apiVars, searchVars, audioVars, dbVars, adminVars>>

WinNext == WinCall
WinSpec == WinInit /\ [][WinNext]_vars

\* "Record vote" of _handle_vote and _handle_vote_callback on a poll in status
\* 'voting', vote after vote, from the new poll's empty lists
Voters == {1, 2, 3}

RevoteInit ==
    /\ GroupInit /\ WinIdle /\ SessionInit /\ ImageIdle /\ ApiIdle /\ SearchIdle /\ AudioIdle /\ DbIdle /\ AdminIdle
    /\ rv_votes = NewPoll("q1", 1, 1).votes
    /\ rv_prev = rv_votes
    /\ rv_call = <<>>

RevoteRecord(user_id, vote_type) ==
    /\ rv_votes' = RecordVote(rv_votes, user_id, vote_type)
    /\ rv_prev' = rv_votes
    /\ rv_call' = <<user_id, vote_type>>
    /\ UNCHANGED <<groupVars, winVars, sessionVars, imageVars, apiVars, searchVars, audioVars, dbVars, adminVars>>

RevoteNext == \E user_id \in Voters, vote_type \in CategorySet : RevoteRecord(user_id, vote_type)
RevoteSpec == RevoteInit /\ [][RevoteNext]_vars

\* ------------------------------------------------------ the session manager
session_timeout == 3600
\* the slice bound of session['recent_searches'] = recent_searches[:10]
RecentSearchLimit == 10
\* seconds the clock advances between two calls
TimeSteps == {1800, 1801}

\* list[:n] for n >= 0
PySliceTo(list, n) == SubSeq(list, 1, IF Len(list) < n THEN Len(list) ELSE n)

\* the session dict get_session creates at time t
NewSession(t) ==
    [last_activity |-> t,
     recent_searches |-> <<>>,
     preferences |-> [high_quality |-> TRUE, max_results |-> 5]]

\* mutant of ExpiredUsers: a session expires when the timeout is reached
ExpiredUsersAtTimeout(ss, current_time) ==
    {user_id \in DOMAIN ss : current_time - ss[user_id].last_activity >= session_timeout}

\* expired_users of _clean_expired_sessions
ExpiredUsers(ss, current_time) ==
    {user_id \in DOMAIN ss : current_time - ss[user_id].last_activity > session_timeout}

\* self.sessions after _clean_expired_sessions
CleanExpiredSessions(ss, current_time) ==
    [user_id \in DOMAIN ss \ ExpiredUsers(ss, current_time) |-> ss[user_id]]

\* self.sessions after get_session(user_id) at time t
GetSession(ss, t, user_id) ==
    LET cleaned == CleanExpiredSessions(ss, t)
    IN  IF user_id \notin DOMAIN cleaned
        THEN SetKey(cleaned, user_id, NewSession(t))
        ELSE [cleaned EXCEPT ![user_id].last_activity = t]

\* mutant of RecentSearches: the new search is put at the end
RecentSearchesAppended(recent_searches, entry) ==
    PySliceTo(Append(recent_searches, entry), RecentSearchLimit)

\* recent_searches.insert(0, entry), then recent_searches[:10]
RecentSearches(recent_searches, entry) ==
    PySliceTo(<<entry>> \o recent_searches, RecentSearchLimit)

\* the searches added to each stored session, once the sessions are ss2
AddedKept(ss2) == [u \in Users |-> IF u \in DOMAIN ss2 THEN added[u] ELSE <<>>]

\* what a call leaves in sess_last
Called(op, user_id, ret) ==
    [op |-> op, user_id |-> user_id, expired_users |-> ExpiredUsers(sessions, now), ret |-> ret]

SessGetSession(user_id) ==
    LET ss2 == GetSession(sessions, now, user_id)
    IN  /\ sessions' = ss2
        /\ added' = AddedKept(CleanExpiredSessions(sessions, now))
        /\ sess_last' = Called("get_session", user_id, ss2[user_id])
        /\ UNCHANGED <<now, groupVars, winVars, revoteVars, imageVars, apiVars, searchVars, audioVars, dbVars, adminVars>>

SessAddRecentSearch(max, user_id, query, search_type) ==
    LET ss2 == GetSession(sessions, now, user_id)
        entry == [query |-> query, type |-> search_type, timestamp |-> now]
        kept == AddedKept(CleanExpiredSessions(sessions, now))
    IN  /\ Len(kept[user_id]) < max
        /\ sessions' = [ss2 EXCEPT ![user_id].recent_searches = RecentSearches(@, entry)]
        /\ added' = [kept EXCEPT ![user_id] = Append(@, entry)]
        /\ sess_last' = Called("add_recent_search", user_id, "None")
        /\ UNCHANGED <<now, groupVars, winVars, revoteVars, imageVars, apiVars, searchVars, audioVars, dbVars, adminVars>>

SessGetRecentSearches(user_id, limit) ==
    LET ss2 == GetSession(sessions, now, user_id)
    IN  /\ sessions' = ss2
        /\ added' = AddedKept(CleanExpiredSessions(sessions, now))
        /\ sess_last' = Called("get_recent_searches", user_id,
                                PySliceTo(ss2[user_id].recent_searches, limit))
        /\ UNCHANGED <<now, groupVars, winVars, revoteVars, imageVars, apiVars, searchVars, audioVars, dbVars, adminVars>>

SessSetPreference(user_id, key, value) ==
    LET ss2 == GetSession(sessions, now, user_id)
    IN  /\ sessions' = [ss2 EXCEPT ![user_id].preferences = SetKey(@, key, value)]
        /\ added' = AddedKept(CleanExpiredSessions(sessions, now))
        /\ sess_last' = Called("set_preference", user_id, "None")
        /\ UNCHANGED <<now, groupVars, winVars, revoteVars, imageVars, apiVars, searchVars, audioVars, dbVars, adminVars>>

\* time passes between two calls
SessTick(d) ==
    /\ now + d <= MaxTime
    /\ now' = now + d
    /\ UNCHANGED <<sessions, added, sess_last, groupVars, winVars, revoteVars, imageVars, apiVars, searchVars, audioVars, dbVars, adminVars>>

SessionNext ==
    \/ \E u \in Users : SessGetSession(u)
    \/ \E u \in Users, query \in Queries :
           SessAddRecentSearch(MaxSessionSearches, u, query, "song")
    \/ \E u \in Users : SessSetPreference(u, "high_quality", FALSE)
    \/ \E d \in TimeSteps : SessTick(d)
SessionSpec == Init /\ [][SessionNext]_vars

\* one user's searches, one after the other, in a session that does not expire
RecentNext ==
    \/ \E query \in Queries : SessAddRecentSearch(MaxSearches, 1, query, "song")
    \/ SessGetRecentSearches(1, 5)
RecentSpec == Init /\ [][RecentNext]_vars

\* ----------------------------------------------- the image quality validator
\* the defaults of ImageQualityValidator.__init__
min_width == 500
min_height == 500
preferred_width == 1000
preferred_height == 1000

\* widths and heights of the images tried
Dimensions == {0, 400, 499, 500, 550, 551, 600, 800, 900, 999, 1000, 1100, 1101, 1200}
Images == [decodable : BOOLEAN, width : Dimensions, height : Dimensions]

\* A ratio is a pair <<numerator, denominator>>, denominator > 0.  The float
\* width / height and the literals 0.9 and 1.1 compare as the exact ratios do:
\* the quotient of two ints is correctly rounded, 900/1000 gives the float of
\* the literal 0.9, and two ratios of pixel counts that differ do so by far
\* more than the rounding.
RatioLeq(a, b) == a[1] * b[2] <= b[1] * a[2]

\* result["width"] / result["height"] if result["height"] > 0 else 0
AspectRatio(width, height) == IF height > 0 THEN <<width, height>> ELSE <<0, 1>>

\* mutant of IsValid: the aspect ratio has to be strictly inside the range
IsValidStrictRatio(width, height) ==
    /\ width >= min_width
    /\ height >= min_height
    /\ ~RatioLeq(AspectRatio(width, height), <<9, 10>>)
    /\ ~RatioLeq(<<11, 10>>, AspectRatio(width, height))

\* result["is_valid"]
IsValid(width, height) ==
    /\ width >= min_width
    /\ height >= min_height
    /\ RatioLeq(<<9, 10>>, AspectRatio(width, height))
    /\ RatioLeq(AspectRatio(width, height), <<11, 10>>)

\* mutant of Quality: one preferred dimension is enough for 'high'
QualityEitherDimension(width, height) ==
    IF width >= preferred_width \/ height >= preferred_height THEN "high"
    ELSE IF width >= min_width /\ height >= min_height THEN "medium"
    ELSE "low"

\* result["quality"]
Quality(width, height) ==
    IF width >= preferred_width /\ height >= preferred_height THEN "high"
    ELSE IF width >= min_width /\ height >= min_height THEN "medium"
    ELSE "low"

\* the result dict of validate_image_url / validate_image_file; source_key is
\* "url" or "file_path".  An image that cannot be downloaded, read or decoded
\* raises inside the try block: the initial dict is returned with the error.
Validation(source_key, image) ==
    IF image.decodable
    THEN [source |-> source_key,
          is_valid |-> IsValid(image.width, image.height),
          quality |-> Quality(image.width, image.height),
          width |-> image.width, height |-> image.height,
          aspect_ratio |-> AspectRatio(image.width, image.height),
          error |-> "None"]
    ELSE [source |-> source_key,
          is_valid |-> FALSE, quality |-> "unknown", width |-> 0, height |-> 0,
          aspect_ratio |-> <<0, 1>>, error |-> "error"]

ImageInit ==
    /\ GroupInit /\ WinIdle /\ RevoteIdle /\ SessionInit /\ ApiIdle /\ SearchIdle /\ AudioIdle /\ DbIdle /\ AdminIdle
    /\ img_input \in Images
    /\ img_result = NoValidation

ValidateImageUrl ==
    /\ img_result = NoValidation
    /\ img_result' = Validation("url", img_input)
    /\ UNCHANGED <<img_input, groupVars, winVars, revoteVars, sessionVars, apiVars, searchVars, audioVars, dbVars, adminVars>>

ValidateImageFile ==
    /\ img_result = NoValidation
    /\ img_result' = Validation("file_path", img_input)
    /\ UNCHANGED <<img_input, groupVars, winVars, revoteVars, sessionVars, apiVars, searchVars, audioVars, dbVars, adminVars>>

ImageNext == ValidateImageUrl \/ ValidateImageFile
ImageSpec == ImageInit /\ [][ImageNext]_vars

\* ------------------------------------------------------- the iTunes client
\* the strings tried as artworkUrl100, the empty string included
UrlParts == {"100", "x", "/"}
ArtworkUrls == UNION {[1..n -> UrlParts] : n \in 0..MaxUrlLen}

Returned(value) == [returned |-> TRUE, value |-> value]

\* _parse_song_results / _parse_album_results of a response with one item
UrlInit ==
    /\ GroupInit /\ WinIdle /\ RevoteIdle /\ SessionInit /\ ImageIdle /\ SearchIdle /\ AudioIdle /\ DbIdle /\ AdminIdle
    /\ \E url \in ArtworkUrls :
           \/ api_call = [op |-> "_parse_song_results",
                          item |-> [SongItem EXCEPT !.artworkUrl100 = url]]
           \/ api_call = [op |-> "_parse_album_results",
                          item |-> [AlbumItem EXCEPT !.artworkUrl100 = url]]
    /\ api_ret = NotReturned

ParseSongCall ==
    /\ api_call.op = "_parse_song_results" /\ api_ret = NotReturned
    /\ api_ret' = Returned(ParseSongResults([resultCount |-> 1, results |-> <<api_call.item>>]))
    /\ UNCHANGED <<api_call, groupVars, winVars, revoteVars, sessionVars, imageVars, searchVars, audioVars, dbVars, adminVars>>

ParseAlbumCall ==
    /\ api_call.op = "_parse_album_results" /\ api_ret = NotReturned
    /\ api_ret' = Returned(ParseAlbumResults([resultCount |-> 1, results |-> <<api_call.item>>]))
    /\ UNCHANGED <<api_call, groupVars, winVars, revoteVars, sessionVars, imageVars, searchVars, audioVars, dbVars, adminVars>>

UrlNext == ParseSongCall \/ ParseAlbumCall
UrlSpec == UrlInit /\ [][UrlNext]_vars

\* search_artist(query) against each combination of provider answers
ArtistInit ==
    /\ GroupInit /\ WinIdle /\ RevoteIdle /\ SessionInit /\ ImageIdle /\ SearchIdle /\ AudioIdle /\ DbIdle /\ AdminIdle
    /\ \E provider \in Providers : api_call = [op |-> "search_artist", provider |-> provider]
    /\ api_ret = NotReturned

SearchArtistCall ==
    /\ api_call.op = "search_artist" /\ api_ret = NotReturned
    /\ api_ret' = IF SearchArtistRaises(api_call.provider)
                  THEN [returned |-> TRUE, raised |-> "KeyError"]
                  ELSE Returned(SearchArtist(api_call.provider))
    /\ UNCHANGED <<api_call, groupVars, winVars, revoteVars, sessionVars, imageVars, searchVars, audioVars, dbVars, adminVars>>

ArtistNext == SearchArtistCall
ArtistSpec == ArtistInit /\ [][ArtistNext]_vars

\* get_cover_url on the items the parsers and the group search produce, and
\* on an item without any URL
CoverItems ==
    {ParsedSong([SongItem EXCEPT !.artworkUrl100 = url]) : url \in ArtworkUrls \ {<<>>}}
    \cup {ParsedAlbum([AlbumItem EXCEPT !.artworkUrl100 = url]) : url \in ArtworkUrls \ {<<>>}}
    \cup {SimulatedResult(n, query) : n \in {"1", "2", "3"}, query \in Queries}
    \cup {[title |-> "Track"]}

CoverUrlInit ==
    /\ GroupInit /\ WinIdle /\ RevoteIdle /\ SessionInit /\ ImageIdle /\ SearchIdle /\ AudioIdle /\ DbIdle /\ AdminIdle
    /\ \E item \in CoverItems, high_quality \in BOOLEAN :
           api_call = [op |-> "get_cover_url", item |-> item, high_quality |-> high_quality]
    /\ api_ret = NotReturned

GetCoverUrlCall ==
    /\ api_call.op = "get_cover_url" /\ api_ret = NotReturned
    /\ api_ret' = Returned(GetCoverUrl(api_call.item, api_call.high_quality))
    /\ UNCHANGED <<api_call, groupVars, winVars, revoteVars, sessionVars, imageVars, searchVars, audioVars, dbVars, adminVars>>

CoverUrlNext == GetCoverUrlCall
CoverUrlSpec == CoverUrlInit /\ [][CoverUrlNext]_vars

\* ------------------------------------------------------ the search handler
\* validate_image rejects images narrower or lower than this
MinImageSize == 300

\* What a download gives: nothing (network or HTTP error), or image data that
\* decodes or not, with its pixel size.
Fetches ==
    {[downloaded |-> FALSE]}
    \cup [downloaded : {TRUE}, decodable : BOOLEAN,
          width : {MinImageSize - 1, MinImageSize}, height : {MinImageSize - 1, MinImageSize}]

\* the downloads whose image, if any, is square
SquareFetches == {fetch \in Fetches : fetch.downloaded => fetch.width = fetch.height}

\* is_valid of ImageProcessor.validate_image(image_data)
ValidImage(fetch) ==
    fetch.decodable /\ ~(fetch.width < MinImageSize \/ fetch.height < MinImageSize)

\* download_image(cover_url): None for the URL None, else what the network gives
Download(cover_url, fetch) ==
    IF cover_url = NoUrl THEN [downloaded |-> FALSE] ELSE fetch

\* _send_cover_image: the URLs downloaded, in order,
\* and the one message sent to the chat; fetches[i] is what the i-th download
\* gives
SendCover(item, fetches) ==
    LET hq_url == GetCoverUrl(item, TRUE)
        first == Download(hq_url, fetches[1])
        std_url == GetCoverUrl(item, FALSE)
        second == Download(std_url, fetches[2])
    IN  IF hq_url = NoUrl \/ hq_url = <<>>
        THEN [attempts |-> <<>>, message |-> "no_cover_found"]
        ELSE IF ~first.downloaded
        THEN [attempts |-> <<hq_url>>, message |-> "error_loading"]
        ELSE IF ValidImage(first)
        THEN [attempts |-> <<hq_url>>, message |-> "photo"]
        ELSE IF ~second.downloaded
        THEN [attempts |-> <<hq_url, std_url>>, message |-> "error_loading"]
        ELSE IF ValidImage(second)
        THEN [attempts |-> <<hq_url, std_url>>, message |-> "photo"]
        ELSE [attempts |-> <<hq_url, std_url>>, message |-> "invalid_image"]

\* the items a cover is sent for: search results kept in the user's session
SendItems ==
    {ParsedSong(SongItem), ParsedAlbum(AlbumItem),
     ParsedSong([SongItem EXCEPT !.artworkUrl100 = <<"https:", "/", "/", "a.example", "/", "cover.jpg">>])}

SendCoverImage(item, fetches) ==
    /\ send_run = NotCalled
    /\ send_run' = [called |-> TRUE, item |-> item, fetches |-> fetches]
                       @@ SendCover(item, fetches)
    /\ UNCHANGED <<search_run, groupVars, winVars, revoteVars, sessionVars, imageVars, apiVars, audioVars, dbVars, adminVars>>

SendNext == \E item \in SendItems, fetches \in Fetches \X Fetches : SendCoverImage(item, fetches)
SendSpec == Init /\ [][SendNext]_vars

\* session.get(...).raise_for_status() or the request itself raised
ProviderFailure == [failed |-> TRUE]
AnswersOrFailure(limit) == Answers(limit) \cup {ProviderFailure}

\* the entities _search is called with by search_song / search_artist /
\* search_album, in order, up to the call that raises
SearchRequests(provider, search_type) ==
    CASE search_type = "song" -> <<"song">>
      [] search_type = "album" -> <<"album">>
      [] search_type = "artist" ->
            IF provider.musicArtist = ProviderFailure \/ SearchArtistRaises(provider)
            THEN <<"musicArtist">>
            ELSE IF GetOr(provider.musicArtist, "resultCount", 0) = 0
            THEN <<"musicArtist", "song">>
            ELSE <<"musicArtist", "artistSongs">>

\* the exception the search ends with, "None" when it returns
SearchRaised(provider, search_type) ==
    LET requests == SearchRequests(provider, search_type)
    IN  IF \E i \in 1..Len(requests) : provider[requests[i]] = ProviderFailure
        THEN "RequestException"
        ELSE IF CoverSearchRaises(provider, search_type) THEN "KeyError"
        ELSE "None"

\* _perform_search(update, context, query, search_type), the awaited Telegram
\* calls returning: the session writes, the search, and the one answer sent.
\* An exception of the search leaves the handler: nothing catches it and the
\* application has no error handler.
PerformSearch(user_id, query, search_type, provider) ==
    LET entry == [query |-> query, type |-> search_type, timestamp |-> now]
        ss1 == [GetSession(sessions, now, user_id) EXCEPT
                    ![user_id].recent_searches = RecentSearches(@, entry)]
        ss2 == GetSession(ss1, now, user_id)
        session == SetKey(SetKey(ss2[user_id], "last_query", query),
                          "last_search_type", search_type)
        raised == SearchRaised(provider, search_type)
        results == IF raised = "None" THEN CoverSearch(provider, search_type) ELSE <<>>
        run == [called |-> TRUE, user_id |-> user_id, query |-> query,
                search_type |-> search_type, provider |-> provider,
                requests |-> SearchRequests(provider, search_type), raised |-> raised]
    IN  /\ search_run = NotCalled
        /\ added' = [AddedKept(CleanExpiredSessions(sessions, now)) EXCEPT
                         ![user_id] = Append(@, entry)]
        /\ sess_last' = Called("get_session", user_id, ss2[user_id])
        /\ IF raised # "None"
           THEN /\ sessions' = [ss2 EXCEPT ![user_id] = session]
                /\ search_run' = run @@ [sent |-> <<>>, analytics |-> <<>>]
                /\ UNCHANGED send_run
           ELSE /\ sessions' = [ss2 EXCEPT ![user_id] = SetKey(session, "current_results", results)]
                /\ \E fetches \in (IF Len(results) = 1 THEN SquareFetches \X SquareFetches
                                    ELSE {<<[downloaded |-> FALSE], [downloaded |-> FALSE]>>}) :
                       LET send == SendCover(results[1], fetches)
                       IN  /\ search_run' = run @@
                                  [sent |-> IF results = <<>> THEN <<"no_results">>
                                            ELSE IF Len(results) = 1 THEN <<send.message>>
                                            ELSE <<"results_found">>,
                                   analytics |-> <<<<user_id, query, search_type, Len(results) > 0>>>>]
                           /\ send_run' = IF Len(results) = 1
                                          THEN [called |-> TRUE, item |-> results[1],
                                                fetches |-> fetches] @@ send
                                          ELSE send_run
        /\ UNCHANGED <<now, groupVars, winVars, revoteVars, imageVars, apiVars, audioVars, dbVars, adminVars>>

SearchNext ==
    /\ search_run = NotCalled
    /\ \E user_id \in {1}, query \in Queries, search_type \in CategorySet,
          provider \in [song : AnswersOrFailure(10), musicArtist : AnswersOrFailure(1),
                        album : AnswersOrFailure(10), artistSongs : AnswersOrFailure(20)] :
           PerformSearch(user_id, query, search_type, provider)
SearchSpec == Init /\ [][SearchNext]_vars

\* One search after another by the same user: the handler of a search is
\* over when the next update is taken.
MaxUserSearches == 2

SearchHandled ==
    /\ search_run # NotCalled
    /\ search_run' = NotCalled
    /\ send_run' = NotCalled
    /\ UNCHANGED <<sessionVars, groupVars, winVars, revoteVars, imageVars, apiVars, audioVars, dbVars, adminVars>>

SearchAgainNext ==
    \/ /\ search_run = NotCalled
       /\ Len(added[1]) < MaxUserSearches
       /\ \E query \in Queries, search_type \in {"song", "album"},
             provider \in [song : AnswersOrFailure(1), musicArtist : {ProviderFailure},
                           album : AnswersOrFailure(1), artistSongs : {ProviderFailure}] :
              PerformSearch(1, query, search_type, provider)
    \/ SearchHandled
SearchAgainSpec == Init /\ [][SearchAgainNext]_vars

\* ------------------------------------------------------ the audio processor
\* An audio file: its extension, the tags it carries (title, artist, album),
\* its embedded picture, and the read at which the tag decoder raises:
\* opening the file, one of the tags, the picture, or never.
MetadataFields == <<"title", "artist", "album">>
Extensions == {".mp3", ".m4a", ".flac", ".ogg", ".wav"}
Covers ==
    {NoCover}
    \cup [present : {TRUE}, decodable : {FALSE}, width : {0}, height : {0}]
    \cup [present : {TRUE}, decodable : {TRUE}, width : {499, 500, 1000}, height : {500, 1000}]
ReadSteps == <<"open", "title", "artist", "album", "cover">>
AudioFiles ==
    [ext : Extensions, tags : SUBSET {"title", "artist", "album"}, cover : Covers,
     raises_at : {"open", "title", "artist", "album", "cover", "never"}]

\* position of a read among the reads of a file
ReadIndex(step) == CHOOSE i \in 1..Len(ReadSteps) : ReadSteps[i] = step

\* the read is reached and done before the decoder raises
ReadDone(file, step) ==
    file.raises_at = "never" \/ ReadIndex(step) < ReadIndex(file.raises_at)

\* metadata of _extract_metadata_and_cover: the tags read before an exception,
\* which the function catches itself.  For an unknown extension the generic
\* loop copies every list-valued key.
ExtractedMetadata(file) ==
    LET fields == {f \in file.tags : ReadDone(file, "open") /\ ReadDone(file, f)}
    IN  [f \in fields |-> <<"value of", f>>]

\* cover_data of _extract_metadata_and_cover: .ogg and unknown extensions
\* give none
ExtractedCover(file) ==
    IF /\ file.ext \in {".mp3", ".m4a", ".flac"}
       /\ ReadDone(file, "open") /\ ReadDone(file, "cover")
    THEN file.cover
    ELSE NoCover

\* _save_cover_art(cover_data, file_path): <<cover_path, quality>>
SaveCoverArt(cover_data) ==
    IF ~cover_data.decodable THEN <<"None", "none">>
    ELSE <<"temp/audio_cover.jpg",
           IF cover_data.width >= 1000 /\ cover_data.height >= 1000 THEN "high"
           ELSE IF cover_data.width >= 500 /\ cover_data.height >= 500 THEN "medium"
           ELSE "low">>

\* the dict process_audio_file returns
ProcessAudioFile(file) ==
    LET metadata == ExtractedMetadata(file)
        cover_data == ExtractedCover(file)
        saved == IF cover_data.present THEN SaveCoverArt(cover_data) ELSE <<"None", "none">>
    IN  [processed |-> TRUE,
         success |-> DOMAIN metadata # {},
         metadata |-> metadata,
         cover_path |-> saved[1],
         cover_quality |-> saved[2],
         error |-> "None"]

AudioInit ==
    /\ GroupInit /\ WinIdle /\ RevoteIdle /\ SessionInit /\ ImageIdle /\ ApiIdle /\ SearchIdle /\ DbIdle /\ AdminIdle
    /\ audio_file \in AudioFiles
    /\ audio_result = NotProcessed

ProcessAudioFileCall ==
    /\ audio_result = NotProcessed
    /\ audio_result' = ProcessAudioFile(audio_file)
    /\ UNCHANGED <<audio_file, groupVars, winVars, revoteVars, sessionVars, imageVars, apiVars, searchVars, dbVars, adminVars>>

AudioNext == ProcessAudioFileCall
AudioSpec == AudioInit /\ [][AudioNext]_vars

\* ------------------------------------------------- the interaction database
MaxDbTime == 4
MaxEvents == 3
TicksPerSecond == 2
DbUsers == {None, 7}
DbGroups == {None, -100}
InteractionData ==
    [kind : {"command"}, command : {"start"}]
    \cup [kind : {"search"}, query : {"q1"}, search_type : {"song"}]

\* strftime('%Y-%m-%d_%H-%M-%S') of the timestamp: whole seconds
FormattedTime(timestamp) == timestamp \div TicksPerSecond

\* d[key] += 1 after "if key not in d: d[key] = 0"
Counted(d, key) == SetKey(d, key, GetOr(d, key, 0) + 1)

\* the per-user and per-group entry of stats after one more interaction
Touched(d, id, timestamp) ==
    LET old == GetOr(d, id, [interactions |-> 0, first_interaction |-> timestamp,
                             last_interaction |-> timestamp])
    IN  SetKey(d, id, [old EXCEPT !.interactions = @ + 1, !.last_interaction = timestamp])

\* open(interaction_file, 'w') and json.dump: the file of that name is
\* created or replaced
Written(files, dir, id, interaction_type, interaction_data) ==
    SetKey(files, <<dir, id, interaction_type, interaction_data.formatted_time>>, interaction_data)

LogInteraction(interaction_type, data, user_id, group_id) ==
    LET timestamp == db_time
        interaction_data == [data |-> data, timestamp |-> timestamp,
                             formatted_time |-> FormattedTime(timestamp),
                             type |-> interaction_type]
        commands == IF interaction_type = "command"
                    THEN Counted(db_stats.commands, data.command)
                    ELSE db_stats.commands
        searches == IF interaction_type = "search"
                    THEN Counted(db_stats.searches, <<data.search_type, ":", data.query>>)
                    ELSE db_stats.searches
        users == IF user_id # None THEN Touched(db_stats.users, user_id, timestamp)
                 ELSE db_stats.users
        groups == IF group_id # None THEN Touched(db_stats.groups, group_id, timestamp)
                  ELSE db_stats.groups
        user_files == IF user_id # None
                      THEN Written(db_files, "users", user_id, interaction_type, interaction_data)
                      ELSE db_files
        group_files == IF group_id # None
                       THEN Written(user_files, "groups", group_id, interaction_type, interaction_data)
                       ELSE user_files
    IN  /\ db_stats.total_interactions < MaxEvents
        /\ db_stats' = [total_interactions |-> db_stats.total_interactions + 1,
                        users |-> users, groups |-> groups,
                        commands |-> commands, searches |-> searches,
                        last_updated |-> timestamp]
        /\ db_files' = group_files
        /\ UNCHANGED <<db_time, groupVars, winVars, revoteVars, sessionVars, imageVars, apiVars, searchVars, audioVars, adminVars>>

\* the clock advances between two calls
DbTick ==
    /\ db_time < MaxDbTime
    /\ db_time' = db_time + 1
    /\ UNCHANGED <<db_stats, db_files, groupVars, winVars, revoteVars, sessionVars, imageVars, apiVars, searchVars, audioVars, adminVars>>

DbNext ==
    \/ \E data \in InteractionData, user_id \in DbUsers, group_id \in DbGroups :
           LogInteraction(data.kind, data, user_id, group_id)
    \/ DbTick
DbSpec == Init /\ [][DbNext]_vars

\* the record files under the directory of a user or a group
FilesUnder(dir, id) == {path \in DOMAIN db_files : path[1] = dir /\ path[2] = id}

\* --------------------------------------------------------- the broadcast
\* AdminManager.broadcast_message, called by handle_admin_callback on
\* broadcast_confirm.  A frame is one call: pc is the await it is suspended
\* at ("send_message", "sleep") or "returned", user_ids and index are the
\* loop's list and position, sends counts the messages the call has sent.
MaxAdminTime == 3
Messages == {"m1", "m2"}

\* mutant of Busy: the guard is missing
BusyNever == FALSE

\* "if self.broadcast_in_progress"
Busy == broadcast_in_progress

\* track_user_activity: a new user id becomes a key of users_data
TrackUserActivity(user_id) ==
    /\ ~InList(user_id, users_data)
    /\ users_data' = Append(users_data, user_id)
    /\ UNCHANGED <<broadcast_in_progress, broadcast_status, broadcasts, admin_time>>
    /\ UNCHANGED <<groupVars, winVars, revoteVars, sessionVars, imageVars, apiVars, searchVars, audioVars, dbVars>>

\* the clock advances
AdminTick ==
    /\ admin_time < MaxAdminTime
    /\ admin_time' = admin_time + 1
    /\ UNCHANGED <<users_data, broadcast_in_progress, broadcast_status, broadcasts>>
    /\ UNCHANGED <<groupVars, winVars, revoteVars, sessionVars, imageVars, apiVars, searchVars, audioVars, dbVars>>

\* the dict broadcast_message returns after its loop
BroadcastResult(status) ==
    [success |-> TRUE, total |-> status.total, sent |-> status.sent,
     failed |-> status.failed, duration |-> status.end_time - status.start_time]

\* the end of the loop's body for one user: the next user's send_message, or,
\* after the last user, end_time, the flag and the return
Advance(s, status) ==
    IF broadcasts[s].index < Len(broadcasts[s].user_ids)
    THEN /\ broadcast_status' = status
         /\ broadcasts' = [broadcasts EXCEPT ![s].pc = "send_message", ![s].index = @ + 1]
         /\ UNCHANGED broadcast_in_progress
    ELSE LET ended == [status EXCEPT !.end_time = admin_time]
         IN  /\ broadcast_status' = ended
             /\ broadcast_in_progress' = FALSE
             /\ broadcasts' = [broadcasts EXCEPT ![s].pc = "returned",
                                                 ![s].result = BroadcastResult(ended)]

\* broadcast_message(message, bot) up to its first await
BroadcastMessage(s, message) ==
    /\ broadcasts[s] = NoBroadcast
    /\ IF Busy
       THEN /\ broadcasts' = [broadcasts EXCEPT ![s] =
                                  [pc |-> "returned", sends |-> 0,
                                   result |-> [success |-> FALSE,
                                               error |-> "Broadcast already in progress"]]]
            /\ UNCHANGED <<broadcast_in_progress, broadcast_status>>
       ELSE LET user_ids == users_data
                started == [total |-> Len(user_ids), sent |-> 0, failed |-> 0,
                            start_time |-> admin_time, end_time |-> None,
                            message |-> message]
            IN  IF user_ids = <<>>
                THEN /\ broadcast_status' = [started EXCEPT !.end_time = admin_time]
                     /\ broadcast_in_progress' = FALSE
                     /\ broadcasts' = [broadcasts EXCEPT ![s] =
                                           [pc |-> "returned", sends |-> 0,
                                            result |-> BroadcastResult(broadcast_status')]]
                ELSE /\ broadcast_status' = started
                     /\ broadcast_in_progress' = TRUE
                     /\ broadcasts' = [broadcasts EXCEPT ![s] =
                                           [pc |-> "send_message", sends |-> 0,
                                            user_ids |-> user_ids, index |-> 1,
                                            message |-> message,
                                            result |-> [success |-> FALSE, error |-> "None"]]]
    /\ UNCHANGED <<users_data, admin_time>>
    /\ UNCHANGED <<groupVars, winVars, revoteVars, sessionVars, imageVars, apiVars, searchVars, audioVars, dbVars>>

\* bot.send_message returned: sent += 1, then the await of asyncio.sleep
SendReturned(s) ==
    /\ broadcasts[s].pc = "send_message"
    /\ broadcast_status' = [broadcast_status EXCEPT !.sent = @ + 1]
    /\ broadcasts' = [broadcasts EXCEPT ![s].pc = "sleep", ![s].sends = @ + 1]
    /\ UNCHANGED <<users_data, broadcast_in_progress, admin_time>>
    /\ UNCHANGED <<groupVars, winVars, revoteVars, sessionVars, imageVars, apiVars, searchVars, audioVars, dbVars>>

\* bot.send_message raised: failed += 1
SendRaised(s) ==
    /\ broadcasts[s].pc = "send_message"
    /\ Advance(s, [broadcast_status EXCEPT !.failed = @ + 1])
    /\ UNCHANGED <<users_data, admin_time>>
    /\ UNCHANGED <<groupVars, winVars, revoteVars, sessionVars, imageVars, apiVars, searchVars, audioVars, dbVars>>

\* asyncio.sleep(0.05) returned
Slept(s) ==
    /\ broadcasts[s].pc = "sleep"
    /\ Advance(s, broadcast_status)
    /\ UNCHANGED <<users_data, admin_time>>
    /\ UNCHANGED <<groupVars, winVars, revoteVars, sessionVars, imageVars, apiVars, searchVars, audioVars, dbVars>>

\* handle_admin_callback has shown the result and returned
ResultShown(s) ==
    /\ broadcasts[s].pc = "returned"
    /\ broadcasts' = [broadcasts EXCEPT ![s] = NoBroadcast]
    /\ UNCHANGED <<users_data, broadcast_in_progress, broadcast_status, admin_time>>
    /\ UNCHANGED <<groupVars, winVars, revoteVars, sessionVars, imageVars, apiVars, searchVars, audioVars, dbVars>>

AdminNext ==
    \/ \E user_id \in Users : TrackUserActivity(user_id)
    \/ AdminTick
    \/ \E s \in Slots, message \in Messages : BroadcastMessage(s, message)
    \/ \E s \in Slots : SendReturned(s)
    \/ \E s \in Slots : SendRaised(s)
    \/ \E s \in Slots : Slept(s)
    \/ \E s \in Slots : ResultShown(s)
AdminSpec == Init /\ [][AdminNext]_vars

\* the calls suspended in the loop of broadcast_message
Broadcasting == {s \in Slots : broadcasts[s].pc \in {"send_message", "sleep"}}

\* ------------------------------------------------------------- properties
\* the frame a handler call started in this step left in slot s
Started(s, kind) == IsIdle(s) /\ tasks'[s].kind = kind

\* the live poll of group g (g has one)
Live(g) == polls[group_sessions[g].current_poll]

\* a frame that is suspended at its last await after a rejection
Rejected(frame, replies) == frame.pc = "final" /\ frame.reply \in replies

\* nothing but the frames changes
StateKept == polls' = polls /\ group_sessions' = group_sessions

\* C1: in every reachable state, under any interleaving of /vote commands and
\* vote-button callbacks at their awaits, no user id is in more than one of
\* the three vote lists of a poll.
C1_OneCategoryPerUser ==
    \A p \in LivePolls : \A u \in Users : \A c1, c2 \in CategorySet :
        (InList(u, polls[p].votes[c1]) /\ InList(u, polls[p].votes[c2])) => c1 = c2

\* a poll in which a user has moved to a list another user's vote is in
C1_Witness ==
    \E p \in LivePolls : \E c \in CategorySet :
        /\ Len(polls[p].votes[c]) = 2
        /\ polls[p].votes[c][1] # polls[p].votes[c][2]
        /\ polls[p].status = "voting"

\* C2: a finalize callback from a user who is not the initiator of the live
\* poll, or arriving when its status is not 'voting', is rejected, and neither
\* the call nor the rest of the rejected handler changes a poll (status,
\* search_type, votes, results) or the group's session (results log).
C2_FinalizeRejected ==
    [][\A s \in Slots :
          /\ (/\ Started(s, "finalize")
              /\ ~NoActivePoll(tasks'[s].chat_id)
              /\ \/ Live(tasks'[s].chat_id).initiator_id # tasks'[s].user_id
                 \/ Live(tasks'[s].chat_id).status # "voting")
             => (/\ Rejected(tasks'[s], {"not_initiator", "already_closed"})
                 /\ StateKept)
          /\ (tasks[s].kind = "finalize" /\ tasks[s].pc = "final") => StateKept]_vars

\* the initiator's poll is still open and has a vote when another user's
\* finalize is rejected
C2_Witness ==
    \E s \in Slots :
        /\ tasks[s].kind = "finalize" /\ tasks[s].reply = "not_initiator"
        /\ Live(tasks[s].chat_id).status = "voting"
        /\ Live(tasks[s].chat_id).votes.artist # <<>>

\* C3: for every combination of vote counts, _get_winning_vote returns a
\* category whose count is the maximum, the first such category in the order
\* song, artist, album, and that maximum as the count.
C3_WinningVote ==
    win_result # <<"", 0>> =>
        \E i \in 1..Len(Categories) :
            /\ win_result[1] = Categories[i]
            /\ win_result[2] = Len(win_votes[Categories[i]])
            /\ \A c \in CategorySet : Len(win_votes[c]) <= win_result[2]
            /\ \A k \in 1..(i - 1) : Len(win_votes[Categories[k]]) < win_result[2]

\* artist and album tie above song: artist wins
C3_Witness ==
    /\ win_result[1] = "artist"
    /\ Len(win_votes.album) = win_result[2]
    /\ Len(win_votes.song) < win_result[2]

\* C4: a select callback whose index is negative or >= the number of results,
\* or that arrives with no live poll or a poll that is not 'completed', is
\* rejected; the call and the rest of the rejected handler leave the group's
\* session (selection history) and the polls unchanged.
C4_SelectRejected ==
    [][\A s \in Slots :
          /\ (/\ Started(s, "select")
              /\ \/ NoActivePoll(tasks'[s].chat_id)
                 \/ Live(tasks'[s].chat_id).status # "completed"
                 \/ tasks'[s].arg < 0
                 \/ tasks'[s].arg >= Len(Live(tasks'[s].chat_id).results))
             => (/\ Rejected(tasks'[s], {"no_active_search", "no_results_yet",
                                         "invalid_choice"})
                 /\ StateKept)
          /\ (tasks[s].kind = "select" /\ tasks[s].pc = "final") => StateKept]_vars

\* an index of 3 is rejected on a completed poll with three results
C4_Witness ==
    \E s \in Slots :
        /\ tasks[s].kind = "select" /\ tasks[s].reply = "invalid_choice"
        /\ tasks[s].arg = 3
        /\ Live(tasks[s].chat_id).status = "completed"

\* C5: a vote, by /vote or by a vote button, that arrives when the live poll
\* has status 'searching' or 'completed' is rejected and leaves the vote
\* lists (the whole poll) unchanged.
C5_VoteRejectedWhenClosed ==
    [][\A s \in Slots :
          /\ (/\ Started(s, "vote") \/ Started(s, "vote_callback")
              /\ ~NoActivePoll(tasks'[s].chat_id)
              /\ Live(tasks'[s].chat_id).status \in {"searching", "completed"})
             => (/\ Rejected(tasks'[s], {"voting_closed"})
                 /\ StateKept)
          /\ (tasks[s].kind \in {"vote", "vote_callback"} /\ tasks[s].pc = "final")
             => StateKept]_vars

\* a vote for album is turned down on a completed poll that holds a vote
C5_Witness ==
    \E s \in Slots :
        /\ tasks[s].kind \in {"vote", "vote_callback"}
        /\ tasks[s].reply = "voting_closed"
        /\ tasks[s].arg = "album"
        /\ Live(tasks[s].chat_id).status = "completed"
        /\ Live(tasks[s].chat_id).votes.song # <<>>

\* C6: after an accepted vote by user u for category c, u is exactly once in
\* c's list and in no other list, whatever u had voted before, and every
\* other user is in each list as often as before.
C6_LatestVoteWins ==
    [][\A s \in Slots :
          (/\ Started(s, "vote") \/ Started(s, "vote_callback")
           /\ tasks'[s].pc = "update_poll_message")
          => LET g == tasks'[s].chat_id
                 u == tasks'[s].user_id
                 c == tasks'[s].arg
                 before == Live(g).votes
                 after == polls'[group_sessions[g].current_poll].votes
             IN  /\ Live(g).status = "voting"
                 /\ Count(after[c], u) = 1
                 /\ \A d \in CategorySet \ {c} : Count(after[d], u) = 0
                 /\ \A v \in Users \ {u} : \A d \in CategorySet :
                        Count(after[d], v) = Count(before[d], v)]_vars

\* an accepted vote has joined another user's vote in the same list
C6_Witness ==
    \E s \in Slots :
        /\ tasks[s].kind \in {"vote", "vote_callback"}
        /\ tasks[s].pc = "update_poll_message"
        /\ Len(Live(tasks[s].chat_id).votes[tasks[s].arg]) = 2
        /\ Live(tasks[s].chat_id).votes[tasks[s].arg][2] = tasks[s].user_id

\* C7: after an accepted finalize the poll's search_type is the winning
\* category, and the results stored in the poll are the list the cover search
\* client returns for the poll's query searched as that category (for some
\* answer of the provider).
C7_ResultsFromSearchClient ==
    \A p \in LivePolls :
        polls[p].status = "completed" /\ "search_type" \in DOMAIN polls[p]
        => /\ polls[p].search_type = GetWinningVote(polls[p].votes)[1]
           /\ \E provider \in Providers :
                  /\ ~CoverSearchRaises(provider, polls[p].search_type)
                  /\ polls[p].results = CoverSearch(provider, polls[p].search_type)

\* C8: when an accepted finalize has run its search step (the poll goes from
\* 'searching' to 'completed' as the finalize handler ends), the group's
\* results log is one entry longer, the new last entry holds that poll's
\* query, search type and result count, and the earlier entries are kept.
C8_ResultsLogAppended ==
    [][\A s \in Slots :
          (/\ tasks[s].kind = "finalize" /\ tasks[s].pc = "closing"
           /\ tasks'[s].pc \in {"idle", "final"}
           /\ polls[tasks[s].poll].status = "searching"
           /\ polls'[tasks[s].poll].status = "completed")
          => LET g == tasks[s].chat_id
                 poll == polls'[tasks[s].poll]
             IN  /\ Len(group_sessions'[g].results) = Len(group_sessions[g].results) + 1
                 /\ SubSeq(group_sessions'[g].results, 1, Len(group_sessions[g].results))
                        = group_sessions[g].results
                 /\ LET entry == group_sessions'[g].results[Len(group_sessions'[g].results)]
                    IN  /\ entry.query = poll.query
                        /\ entry.search_type = poll.search_type
                        /\ entry.count = Len(poll.results)]_vars

\* C9: a /groupsearch with a query, whatever the state of the group's previous
\* poll, makes the live poll a new poll dict with that query, the caller as
\* initiator, status 'voting' and three empty vote lists.
C9_NewPollReplacesLive ==
    [][\A s \in Slots :
          (/\ tasks[s].kind = "groupsearch" /\ tasks[s].pc = "reply_poll"
           /\ IsIdle(s)'
           /\ Len(polls') > Len(polls))
          => LET new == group_sessions'[tasks[s].chat_id].current_poll
             IN  /\ new = Len(polls') /\ Len(polls') = Len(polls) + 1
                 /\ polls'[new].query = tasks[s].query
                 /\ polls'[new].initiator_id = tasks[s].user_id
                 /\ polls'[new].status = "voting"
                 /\ \A c \in CategorySet : polls'[new].votes[c] = <<>>
                 /\ DOMAIN polls'[new] =
                        {"query", "message_id", "initiator_id", "votes", "status"}]_vars

\* a second poll is live, fresh, and the first one is gone
C9_Witness ==
    /\ Len(polls) = 2
    /\ polls[1] = Collected
    /\ \E g \in DOMAIN group_sessions :
           /\ group_sessions[g].current_poll = 2
           /\ polls[2].status = "voting"
           /\ \A c \in CategorySet : polls[2].votes[c] = <<>>

C11_VoteIdempotent ==
    (rv_call # <<>> /\ InList(rv_call[1], rv_prev[rv_call[2]]))
    => /\ \A c \in CategorySet :
              /\ Len(rv_votes[c]) = Len(rv_prev[c])
              /\ \A u \in Voters : Count(rv_votes[c], u) = Count(rv_prev[c], u)
       /\ rv_votes[rv_call[2]][Len(rv_votes[rv_call[2]])] = rv_call[1]

\* the first of two voters of a category has voted for it again
C11_Witness ==
    /\ rv_call # <<>>
    /\ Len(rv_prev[rv_call[2]]) = 2
    /\ rv_prev[rv_call[2]][1] = rv_call[1]
    /\ rv_votes[rv_call[2]] # rv_prev[rv_call[2]]

\* C12: get_session(u) of a user whose stored session was last active more
\* than session_timeout seconds ago removes that session and returns a new
\* one with no recent searches and the default preferences; when the stored
\* session is not older than the timeout it is returned with its recent
\* searches and preferences kept and its last_activity set to the current
\* time.
C12_SessionTimeout ==
    [][(sess_last'.op = "get_session" /\ now' = now /\ sess_last'.user_id \in DOMAIN sessions)
       => LET u == sess_last'.user_id
              old == sessions[u]
              ret == sess_last'.ret
          IN  /\ ret = sessions'[u]
              /\ ret.last_activity = now
              /\ IF now - old.last_activity > 3600
                 THEN /\ ret.recent_searches = <<>>
                      /\ ret.preferences = [high_quality |-> TRUE, max_results |-> 5]
                 ELSE /\ ret.recent_searches = old.recent_searches
                      /\ ret.preferences = old.preferences]_vars

\* a session with a search and a changed preference has expired and the call
\* returned a new one, while another user's session, last active exactly
\* session_timeout seconds ago, was kept
C12_Witness ==
    /\ sess_last.op = "get_session"
    /\ sess_last.user_id \in sess_last.expired_users
    /\ added[sess_last.user_id] = <<>>
    /\ sess_last.ret.recent_searches = <<>>
    /\ \E v \in DOMAIN sessions :
           /\ now - sessions[v].last_activity = 3600
           /\ sessions[v].recent_searches # <<>>

\* C13: after n add_recent_search calls for a user within one session, the
\* session's recent_searches has min(n, 10) entries, which are the last
\* min(n, 10) searches added, newest first.
C13_RecentSearchesBounded ==
    \A u \in DOMAIN sessions :
        LET recent == sessions[u].recent_searches
            n == Len(added[u])
        IN  /\ Len(recent) <= 10
            /\ Len(recent) = (IF n < 10 THEN n ELSE 10)
            /\ \A i \in 1..Len(recent) : recent[i] = added[u][n - i + 1]

\* twelve searches were added: the first two are gone
C13_Witness ==
    /\ 1 \in DOMAIN sessions
    /\ Len(added[1]) = 12
    /\ Len(sessions[1].recent_searches) = 10
    /\ sessions[1].recent_searches[1].query # sessions[1].recent_searches[10].query
    /\ sessions[1].recent_searches[10] = added[1][3]

\* C14: for a decodable image of width w and height h, the quality of the
\* result is 'high' when w >= 1000 and h >= 1000, 'medium' when that fails
\* but w >= 500 and h >= 500, and 'low' otherwise, whatever the aspect ratio.
C14_QualityTiers ==
    (img_result # NoValidation /\ img_input.decodable)
    => LET w == img_input.width
           h == img_input.height
       IN  img_result.quality =
               (IF w >= 1000 /\ h >= 1000 THEN "high"
                ELSE IF w >= 500 /\ h >= 500 THEN "medium"
                ELSE "low")

\* an image that is not near-square got 'high', and is not valid
C14_Witness ==
    /\ img_result # NoValidation
    /\ img_input.decodable
    /\ img_result.quality = "high"
    /\ ~img_result.is_valid
    /\ img_input.width = 1200 /\ img_input.height = 1000

\* C15: for a decodable image of width w and height h, is_valid is true
\* exactly when w >= 500 and h >= 500 and 9h <= 10w <= 11h.
C15_ValidNearSquare ==
    (img_result # NoValidation /\ img_input.decodable)
    => LET w == img_input.width
           h == img_input.height
       IN  img_result.is_valid
               <=> (w >= 500 /\ h >= 500 /\ 9 * h <= 10 * w /\ 10 * w <= 11 * h)

\* an image at the edge of the near-square range is valid
C15_Witness ==
    /\ img_result # NoValidation
    /\ img_input.decodable
    /\ img_result.is_valid
    /\ 10 * img_input.width = 11 * img_input.height

\* the string has an occurrence of the pattern
Contains(str, pattern) ==
    \E i \in 1..(Len(str) - Len(pattern) + 1) :
        SubSeq(str, i, i + Len(pattern) - 1) = pattern

\* the path segments of a URL: the parts between the "/"
RECURSIVE PathSegments(_)
PathSegments(url) ==
    IF \A i \in 1..Len(url) : url[i] # "/" THEN <<url>>
    ELSE LET i == CHOOSE k \in 1..Len(url) : url[k] = "/" /\ \A j \in 1..(k - 1) : url[j] # "/"
         IN  <<SubSeq(url, 1, i - 1)>> \o PathSegments(SubSeq(url, i + 1, Len(url)))

\* C16: the parsers keep an item with a non-empty artwork URL and raise no
\* error; its high-quality URL has the same path segments as the artwork URL
\* except that the size token 100x100 is replaced by 1600x1600: a segment
\* without the token is unchanged, a URL without the token is returned as it
\* is, and a URL with the token has 1600x1600 in its place and no 100x100
\* left.
C16_HighQualityUrl ==
    (api_call.op \in {"_parse_song_results", "_parse_album_results"}
        /\ api_ret.returned /\ api_call.item.artworkUrl100 # <<>>)
    => LET url == api_call.item.artworkUrl100
           parsed == api_ret.value
       IN  /\ Len(parsed) = 1
           /\ parsed[1].cover_url = url
           /\ LET hq == parsed[1].cover_url_hq
              IN  /\ ~Contains(url, SizeToken) => hq = url
                  /\ Len(PathSegments(hq)) = Len(PathSegments(url))
                  /\ \A i \in 1..Len(PathSegments(url)) :
                         ~Contains(PathSegments(url)[i], SizeToken)
                         => PathSegments(hq)[i] = PathSegments(url)[i]
                  /\ Contains(url, SizeToken)
                     => /\ Contains(hq, <<"1600", "x", "1600">>)
                        /\ ~Contains(hq, SizeToken)
                        /\ Len(hq) = Len(url)
                        /\ \A i \in 1..Len(url) :
                               \/ hq[i] = url[i]
                               \/ hq[i] = "1600" /\ url[i] = "100"

\* a URL with the token in its last segment, followed by more of the file
\* name, and a first segment without it
C16_Witness ==
    /\ api_call.op = "_parse_song_results"
    /\ api_ret.returned
    /\ api_call.item.artworkUrl100 = <<"x", "/", "100", "x", "100", "x">>
    /\ api_ret.value[1].cover_url_hq = <<"x", "/", "1600", "x", "1600", "x">>

\* C17: when the artist lookup of search_artist(q) reports zero results, the
\* list returned is the list search_song(q) returns against the same provider
\* answers.
C17_ArtistFallback ==
    (api_call.op = "search_artist" /\ api_ret.returned
        /\ api_call.provider.musicArtist.resultCount = 0)
    => /\ "value" \in DOMAIN api_ret
       /\ api_ret.value = SearchSong(api_call.provider)

\* no artist found, the song search finds a song, and the songs of an artist
\* id would have been another list
C17_Witness ==
    /\ api_call.op = "search_artist" /\ api_ret.returned
    /\ api_call.provider.musicArtist.resultCount = 0
    /\ api_ret.value # <<>>
    /\ ParseSongResults(api_call.provider.artistSongs) # api_ret.value

\* C18: get_cover_url(item, high_quality) returns the item's cover_url_hq
\* when high_quality is set and the item has one, otherwise the item's
\* cover_url when it has one, otherwise None; it returns for every item.
C18_GetCoverUrl ==
    (api_call.op = "get_cover_url" /\ api_ret # NotReturned)
    => LET item == api_call.item
       IN  /\ api_ret.returned
           /\ api_ret.value =
                  (IF api_call.high_quality /\ "cover_url_hq" \in DOMAIN item
                   THEN item.cover_url_hq
                   ELSE IF "cover_url" \in DOMAIN item THEN item.cover_url
                   ELSE NoUrl)

\* the standard URL was asked for of an item whose high-quality URL differs
C18_Witness ==
    /\ api_call.op = "get_cover_url" /\ api_ret.returned
    /\ ~api_call.high_quality
    /\ "cover_url_hq" \in DOMAIN api_call.item
    /\ api_call.item.cover_url_hq # api_call.item.cover_url
    /\ api_ret.value = api_call.item.cover_url

\* C19: when a failure message is sent for a cover, the high-quality URL was
\* tried and then, exactly once, the standard URL: no failure message follows
\* the high-quality attempt alone.
C19_OneFallbackBeforeFailure ==
    (send_run # NotCalled /\ send_run.message \in {"error_loading", "invalid_image"})
    => /\ Len(send_run.attempts) = 2
       /\ send_run.attempts[1] = GetCoverUrl(send_run.item, TRUE)
       /\ send_run.attempts[2] = GetCoverUrl(send_run.item, FALSE)

\* C20: when a request to the provider fails during a user search, the user
\* is sent a message, which is not the 'no results' answer, and no more than
\* the three requests of the song, artist, album chain were made.
C20_ProviderFailureReported ==
    (search_run # NotCalled
        /\ \E i \in 1..Len(search_run.requests) :
               search_run.provider[search_run.requests[i]] = ProviderFailure)
    => /\ search_run.sent # <<>>
       /\ \A i \in 1..Len(search_run.sent) : search_run.sent[i] # "no_results"
       /\ Len(search_run.requests) <= 3

\* C21: when the decoding of the file's tags raises, the result of
\* process_audio_file has success = false and an error; when at least one of
\* title, artist, album was decoded, the result has success = true.
C21_DecodeErrorReported ==
    audio_result # NotProcessed
    => /\ audio_file.raises_at # "never"
          => ~audio_result.success /\ audio_result.error # "None"
       /\ DOMAIN audio_result.metadata # {} => audio_result.success

\* C28: a result of process_audio_file with a cover_path has success =
\* true, also for a file that carries no title, artist or album tag.
C28_CoverImpliesSuccess ==
    audio_result # NotProcessed /\ audio_result.cover_path # "None"
    => audio_result.success

\* C22: every log_interaction with a user id adds one record file under that
\* user's directory and replaces none: the user's directory holds as many
\* files as interactions were logged for the user; likewise for group ids.
C22_OneFilePerInteraction ==
    /\ \A u \in DOMAIN db_stats.users :
          Cardinality(FilesUnder("users", u)) = db_stats.users[u].interactions
    /\ \A g \in DOMAIN db_stats.groups :
          Cardinality(FilesUnder("groups", g)) = db_stats.groups[g].interactions

\* the statuses a poll takes, in their order
StatusRank(status) ==
    CASE status = "voting" -> 1 [] status = "searching" -> 2 [] status = "completed" -> 3

\* C23: handled one update at a time, a poll's status changes only from
\* 'voting' to 'searching' and from 'searching' to 'completed'; a poll has
\* results only when 'completed' and search_type only when 'searching' or
\* 'completed'.
C23_StatusOrder ==
    [][\A p \in LivePolls :
          polls'[p] # Collected
          => /\ \/ polls'[p].status = polls[p].status
                \/ StatusRank(polls'[p].status) = StatusRank(polls[p].status) + 1
             /\ "results" \in DOMAIN polls'[p] => polls'[p].status = "completed"
             /\ "search_type" \in DOMAIN polls'[p]
                    => polls'[p].status \in {"searching", "completed"}]_vars

\* a poll with an album vote has gone through 'searching' and is completed
C23_Witness ==
    \E p \in LivePolls :
        /\ polls[p].status = "completed"
        /\ polls[p].votes.album # <<>>
        /\ {"results", "search_type"} \subseteq DOMAIN polls[p]

C25_OneFinalizeAccepted ==
    [][\A s \in Slots :
          (/\ tasks'[s] # tasks[s]
           /\ tasks'[s].kind = "finalize" /\ tasks'[s].pc = "closing")
          => LET p == tasks'[s].poll
             IN  /\ polls[p].status = "voting"
                 /\ polls'[p].status = "searching"
                 /\ \A t \in Slots \ {s} :
                        ~(/\ tasks'[t].kind = "finalize" /\ tasks'[t].pc = "closing"
                          /\ tasks'[t].poll = p)]_vars

\* two accepted finalize calls are suspended at once, each on its own poll
C25_Witness ==
    \E s, t \in Slots :
        /\ s # t
        /\ tasks[s].kind = "finalize" /\ tasks[s].pc = "closing"
        /\ tasks[t].kind = "finalize" /\ tasks[t].pc = "closing"
        /\ tasks[s].poll # tasks[t].poll

\* C27: a vote-button callback whose category is none of song, artist, album
\* leaves the three vote lists of the poll as they were.  Handled one update
\* at a time, the call that ends in the KeyError is the only step that leaves
\* every frame as it was.
C27_UnknownCategoryKeepsVotes ==
    [][tasks' = tasks
       => \A p \in LivePolls : polls'[p] # Collected => polls'[p].votes = polls[p].votes]_vars

\* C26: every poll whose finalize was accepted (status 'searching')
\* eventually has status 'completed', when every suspended handler is
\* resumed, also when the call it awaits fails.
C26_SearchingLeadsToCompleted ==
    \A p \in 1..MaxPolls :
        (p <= Len(polls) /\ polls[p].status = "searching")
        ~> (p <= Len(polls) /\ polls[p].status = "completed")

\* C29: at most one broadcast runs at a time; a broadcast_message call made
\* while broadcast_in_progress returns success = false, sends nothing and
\* leaves broadcast_status as it was; while a broadcast runs sent + failed <=
\* total, and when it ends sent + failed = total and broadcast_in_progress is
\* false.
C29_OneBroadcastAtATime ==
    [][/\ Cardinality(Broadcasting') <= 1
       /\ broadcast_in_progress' <=> Broadcasting' # {}
       /\ broadcast_status'.sent + broadcast_status'.failed <= broadcast_status'.total
       /\ \A s \in Slots :
             /\ (broadcasts[s] = NoBroadcast /\ broadcasts'[s] # NoBroadcast
                 /\ broadcast_in_progress)
                => /\ broadcasts'[s].pc = "returned"
                   /\ broadcasts'[s].result.success = FALSE
                   /\ broadcasts'[s].sends = 0
                   /\ broadcast_status' = broadcast_status
                   /\ broadcast_in_progress'
             /\ (broadcasts[s].pc # "returned" /\ broadcasts'[s].pc = "returned"
                 /\ broadcasts'[s].result.success)
                => /\ broadcast_status'.sent + broadcast_status'.failed
                          = broadcast_status'.total
                   /\ broadcasts'[s].result.sent = broadcasts'[s].sends
                   /\ broadcasts'[s].result.sent + broadcasts'[s].result.failed
                          = broadcasts'[s].result.total
                   /\ ~broadcast_in_progress']_vars

\* a call has been turned down while another call's broadcast, with one
\* message sent and one failed, is at its last user
C29_Witness ==
    \E s, t \in Slots :
        /\ broadcasts[s].pc = "returned" /\ ~broadcasts[s].result.success
        /\ broadcasts[t].pc = "send_message" /\ broadcasts[t].index = 2
        /\ broadcast_status.sent = 0 /\ broadcast_status.failed = 1
        /\ broadcast_in_progress

\* C30: whenever a search handler has finished, with its answer or with an
\* exception, the session's last_query and last_search_type are those of that
\* search and current_results is its result list: no list of another search
\* is left there.
C30_ResultsOfLastSearch ==
    search_run # NotCalled
    => LET session == sessions[search_run.user_id]
       IN  /\ session.last_query = search_run.query
           /\ session.last_search_type = search_run.search_type
           /\ GetOr(session, "current_results", <<>>) =
                  IF search_run.raised = "None"
                  THEN CoverSearch(search_run.provider, search_run.search_type)
                  ELSE <<>>

====
